---- MODULE Spec2Model ----
(***************************************************************************)
(* A model of scripts/collect_data.py: the retrying request handler        *)
(* fetch_data_from_api, the nine fetch_* dataset functions that call it,   *)
(* and the three response normalizers process_*_api_response.              *)
(***************************************************************************)
EXTENDS Integers, Sequences, FiniteSets, TLC

\* ------------------------------------------------------------------ bounds
\* Largest max_retries a direct call of fetch_data_from_api is explored with.
MaxRetriesBound == 3
\* Most failed attempts explored in one run of the entry point, all datasets
\* together.
MaxRunFailures == 3
\* Most calls of save_data_to_csv explored before the file is read back.
MaxSaves == 2
\* Longest sales table and longest CPI table merge_datasets is explored with.
MaxRows == 2
\* Longest data / observations list a normalizer is explored with.
MaxRecords == 2

\* ------------------------------------------------------- program constants
DefaultMaxRetries == 3
DefaultRetryDelay == 5

BLS_API_URL == "https://api.bls.gov/publicAPI/v2/timeseries/data/"
FRED_API_URL == "https://api.stlouisfed.org/fred/series/observations"

\* What os.getenv returns for a variable that is not set.
PyNone == "<None>"

EnvVars == {"BLS_API_KEY", "FRED_API_KEY"}
\* A variable is unset, set to the empty string, or set to a key.
EnvValues == {PyNone, "", "key1"}

\* The dataset functions, in the order the entry point calls them.
DatasetOrder ==
    << "cpi", "pce", "housing", "ppi", "gdp", "ces", "retail_sales",
       "grocery_sales", "median_household_income" >>

Datasets == {DatasetOrder[i] : i \in 1..Len(DatasetOrder)}

BlsDatasets == {"cpi", "ces"}

\* The series each FRED dataset function asks for, with its date range.
FredSeries ==
    [ pce |-> <<"PCECC96", "2020-01-01", "2024-09-30">>,
      housing |-> <<"MSPUS", "2020-01-01", "2024-12-31">>,
      ppi |-> <<"PPIACO", "2020-01-01", "2024-12-31">>,
      gdp |-> <<"GDP", "2020-01-01", "2024-12-31">>,
      retail_sales |-> <<"MRTSSM44X72USS", "2020-01-01", "2024-12-31">>,
      grocery_sales |-> <<"MRTSSM4451USS", "2020-01-01", "2024-12-31">>,
      median_household_income |-> <<"MEHOINUSA646N", "2020-01-01", "2024-12-31">> ]

BlsSeries ==
    [ cpi |-> <<"CUUR0000SA0", "2020", "2024">>,
      ces |-> <<"CES0000000001", "2020", "2024">> ]

\* The payload dict a dataset function builds before it calls
\* fetch_data_from_api; e is the process environment.
DatasetPayload(d, e) ==
    IF d \in BlsDatasets
    THEN [ seriesid |-> <<BlsSeries[d][1]>>,
           startyear |-> BlsSeries[d][2],
           endyear |-> BlsSeries[d][3] ]
    ELSE [ series_id |-> FredSeries[d][1],
           api_key |-> e["FRED_API_KEY"],
           file_type |-> "json",
           observation_start |-> FredSeries[d][2],
           observation_end |-> FredSeries[d][3] ]

DatasetUrl(d) == IF d \in BlsDatasets THEN BLS_API_URL ELSE FRED_API_URL

DatasetEnvVar(d) == IF d \in BlsDatasets THEN "BLS_API_KEY" ELSE "FRED_API_KEY"

DatasetMethod(d) == IF d \in BlsDatasets THEN "POST" ELSE "GET"

\* A variant in which every dataset function writes to one path.
DatasetPath_Shared(d) == "data/raw/cpi_data.csv"

\* The default output_path of each dataset function.
DatasetPath(d) ==
    CASE d = "cpi" -> "data/raw/cpi_data.csv"
      [] d = "pce" -> "data/raw/pce_data.csv"
      [] d = "housing" -> "data/raw/housing_data.csv"
      [] d = "ppi" -> "data/raw/ppi_data.csv"
      [] d = "gdp" -> "data/raw/gdp_data.csv"
      [] d = "ces" -> "data/raw/ces_data.csv"
      [] d = "retail_sales" -> "data/raw/retail_sales.csv"
      [] d = "grocery_sales" -> "data/raw/grocery_sales.csv"
      [] d = "median_household_income" -> "data/raw/median_household_income.csv"

\* The required_fields each dataset function passes to its normalizer.
DatasetFields(d) ==
    CASE d = "cpi" -> <<"year", "periodName", "value">>
      [] d = "ces" -> <<"seriesID", "year", "periodName", "value">>
      [] OTHER -> <<"date", "value">>

\* The directory of the output files.
RawDir == "data/raw"

Paths == {DatasetPath(d) : d \in Datasets}

\* The files of process_data.py: the generated sales and the merged output.
SALES_FILE == "data/raw/sales_data.csv"

MERGED_FILE == "data/processed/merged_data.csv"

ProcessedDir == "data/processed"

AllPaths == Paths \cup {SALES_FILE, MERGED_FILE}

\* os.path.dirname(path)
DirName(path) == IF path = MERGED_FILE THEN ProcessedDir ELSE RawDir

\* -------------------------------------------------------------------- cells
\* A cell value is a string, a number or the null of pandas.
Str(s) == [t |-> "str", s |-> s]

Num(n) == [t |-> "num", n |-> n]

NaN == [t |-> "nan"]

\* A JSON object of strings, with its keys in the order of the text.
Rec(keys, vals) == [i \in 1..Len(keys) |-> <<keys[i], Str(vals[i])>>]

\* ---------------------------------------------------------------- transport
\* Bodies with one record: what BLS and FRED answer, and the same with a
\* value that is not a number.
BlsBody ==
    "{\"Results\": {\"series\": [{\"seriesID\": \"CES0000000001\", \"data\": [{\"year\": \"2024\", \"periodName\": \"January\", \"value\": \"301.8\"}]}]}}"

BlsBadBody ==
    "{\"Results\": {\"series\": [{\"seriesID\": \"CES0000000001\", \"data\": [{\"year\": \"2024\", \"periodName\": \"March\", \"value\": \"-\"}]}]}}"

FredBody == "{\"observations\": [{\"date\": \"2024-01-01\", \"value\": \"322600\"}]}"

FredBadBody == "{\"observations\": [{\"date\": \"2024-07-01\", \"value\": \".\"}]}"

\* Response bodies the transport can deliver, as text.
DecodableBodies ==
    {"{}", "{\"observations\": []}", BlsBody, BlsBadBody, FredBody, FredBadBody}

BodyTexts == DecodableBodies \cup {"<html>Bad Gateway</html>"}

\* response.json(): the decoded body, defined for the decodable texts.
JsonDecode(text) ==
    CASE text = "{}" -> <<>>
      [] text = "{\"observations\": []}" -> [observations |-> <<>>]
      [] text = BlsBody ->
            [Results |-> [series |-> <<
                [ seriesID |-> "CES0000000001",
                  data |-> << Rec(<<"year", "periodName", "value">>,
                                  <<"2024", "January", "301.8">>) >> ] >>]]
      [] text = BlsBadBody ->
            [Results |-> [series |-> <<
                [ seriesID |-> "CES0000000001",
                  data |-> << Rec(<<"year", "periodName", "value">>,
                                  <<"2024", "March", "-">>) >> ] >>]]
      [] text = FredBody ->
            [observations |-> << Rec(<<"date", "value">>, <<"2024-01-01", "322600">>) >>]
      [] text = FredBadBody ->
            [observations |-> << Rec(<<"date", "value">>, <<"2024-07-01", ".">>) >>]

\* What one requests.get / requests.post can produce: an HTTP response, or
\* a requests.exceptions.RequestException raised by the transport.
Responses ==
    [kind : {"http"}, status_code : {200}, text : BodyTexts]
      \cup {[kind |-> "http", status_code |-> 201, text |-> "{}"]}
      \cup {[kind |-> "http", status_code |-> 500, text |-> "Internal Server Error"]}
      \cup {[kind |-> "exception", status_code |-> 0, text |-> "Timeout"]}

\* ------------------------------------------------------------------- state
VARIABLES
    env,              \* process environment: variable name -> value
    json_error_is_request_exception,
                      \* whether the installed requests raises a RequestException
                      \* subclass from response.json() (it does from 2.27 on)
    caller,           \* which function called fetch_data_from_api
    api_url, payload, api_key_env_var, method, max_retries, retry_delay,
                      \* the arguments; payload is the caller's dict object
    payload0,         \* the caller's payload as it was when the call began
    attempt,          \* the loop variable of fetch_data_from_api
    pc,               \* "idle", "loop" (about to test the loop), "done"
    outcome,          \* how the call ended: a return value or an exception
    log,              \* the sends and sleeps performed, in order
    nz_fn,            \* the normalizer applied: "BLS", "CES", "FRED" ("none" before)
    nz_json,          \* the decoded response handed to the normalizer
    nz_json0,         \* that response as it was before the normalizer ran
    nz_fields,        \* required_fields
    nz_result,        \* what the normalizer returned or raised
    now,              \* seconds the process has spent in time.sleep
    main_pc,          \* the entry point: "idle" (not run), "ready" (between two
                      \* dataset functions), "fetching", "exited"
    main_next,        \* index in DatasetOrder of the dataset function to call
    main_error,       \* the exception that ended the entry point, if one did
    dirs,             \* the directories that exist
    files,            \* path -> content of the file, or NoFile
    history,          \* the dataset functions' starts and ends, in order
    io_log,           \* the calls of save_data_to_csv made directly, in order
    stage,            \* the function of a later stage that ran ("none" before)
    stage_in,         \* what it was given
    stage_out         \* what it returned or raised

vars ==
    << env, json_error_is_request_exception, caller, api_url, payload,
       api_key_env_var, method, max_retries, retry_delay, payload0, attempt,
       pc, outcome, log, nz_fn, nz_json, nz_json0, nz_fields, nz_result,
       now, main_pc, main_next, main_error, dirs, files, history,
       io_log, stage, stage_in, stage_out >>

fetchVars ==
    << env, json_error_is_request_exception, caller, api_url, payload,
       api_key_env_var, method, max_retries, retry_delay, payload0, attempt,
       pc, outcome, log, now >>

mainVars == << main_pc, main_next, main_error, dirs, files, history >>

stageVars == << io_log, stage, stage_in, stage_out >>

normVars == << nz_fn, nz_json, nz_json0, nz_fields, nz_result >>

NoOutcome == [kind |-> "none"]

\* No call of fetch_data_from_api is in progress.
FetchIdle ==
    /\ caller = "nobody"
    /\ api_url = ""
    /\ payload = <<>>
    /\ payload0 = <<>>
    /\ api_key_env_var = ""
    /\ method = ""
    /\ max_retries = 0
    /\ retry_delay = 0
    /\ attempt = 0
    /\ pc = "idle"
    /\ outcome = NoOutcome
    /\ log = <<>>

\* No normalizer has been applied.
NormIdle ==
    /\ nz_fn = "none"
    /\ nz_json = <<>>
    /\ nz_json0 = <<>>
    /\ nz_fields = <<>>
    /\ nz_result = NoOutcome

NoFile == [kind |-> "absent"]

\* The entry point is not run.
MainIdle ==
    /\ main_pc = "idle"
    /\ main_next = 1
    /\ main_error = NoOutcome
    /\ dirs = {}
    /\ files = [f \in AllPaths |-> NoFile]
    /\ history = <<>>

\* No later stage has run.
StageIdle ==
    /\ io_log = <<>>
    /\ stage = "none"
    /\ stage_in = NoOutcome
    /\ stage_out = NoOutcome

Init ==
    /\ env \in [EnvVars -> EnvValues]
    /\ json_error_is_request_exception \in BOOLEAN
    /\ FetchIdle
    /\ NormIdle
    /\ now = 0
    /\ MainIdle
    /\ StageIdle

\* ------------------------------------------------------ fetch_data_from_api
\* os.getenv(api_key_env_var)
ResolveKey(e, var) == e[var]

\* A variant that tests `api_key is None`: the empty string passes.
KeyMissing_NoneOnly(api_key) == api_key = PyNone

\* `if not api_key`: None and the empty string are both falsy.
KeyMissing(api_key) == api_key = PyNone \/ api_key = ""

\* `if "registrationkey" in payload: payload["registrationkey"] = api_key`,
\* an assignment into the caller's dict.
InjectKey(p, api_key) ==
    IF "registrationkey" \in DOMAIN p
    THEN [p EXCEPT !["registrationkey"] = api_key]
    ELSE p

DefaultHeaders == [ContentType |-> "application/json"]

\* requests.get(api_url, params=payload, ...) or
\* requests.post(api_url, json=payload, ...)
Request(m, url, p) ==
    [ op |-> IF m = "GET" THEN "requests.get" ELSE "requests.post",
      url |-> url,
      payload |-> p,
      headers |-> DefaultHeaders ]

\* A variant that runs the loop body once more: range(max_retries + 1).
LoopContinues_OneMore(a, mr) == a <= mr

\* `for attempt in range(max_retries)`
LoopContinues(a, mr) == a < mr

\* A variant that accepts every 2xx status: response.ok for these statuses.
IsSuccess_Any2xx(resp) == resp.status_code >= 200 /\ resp.status_code <= 299

\* `if response.status_code == 200`
IsSuccess(resp) == resp.status_code = 200

\* A variant that gives up one attempt early.
CanRetry_RaisesEarly(a, mr) == a < mr - 2

\* A variant that sleeps after the last failed attempt too.
CanRetry_SleepsAfterLast(a, mr) == a < mr

\* `if attempt < max_retries - 1`
CanRetry(a, mr) == a < mr - 1

ConfigError(var) ==
    [ kind |-> "raise", exc |-> "ValueError",
      text |-> "{var} is not set! Check your .env file.", var |-> var ]

\* A variant that reports the loop index in place of max_retries.
StatusError_AttemptIndex(mr, status) ==
    [ kind |-> "raise", exc |-> "RuntimeError",
      text |-> "API request failed after {n} attempts with status code {s}",
      n |-> mr - 1, s |-> status ]

StatusError(mr, status) ==
    [ kind |-> "raise", exc |-> "RuntimeError",
      text |-> "API request failed after {n} attempts with status code {s}",
      n |-> mr, s |-> status ]

NetworkError(mr) ==
    [ kind |-> "raise", exc |-> "RuntimeError",
      text |-> "API request failed after {n} attempts due to network errors.",
      n |-> mr ]

\* response.json() failed and the exception is not a RequestException.
DecodeError == [kind |-> "raise", exc |-> "JSONDecodeError"]

Returned(v) == [kind |-> "return", none |-> FALSE, value |-> v]

\* Falling off the end of the function.
ReturnedNone == [kind |-> "return", none |-> TRUE]

SendEvent(req, resp) == [ev |-> "send", req |-> req, resp |-> resp]

SleepEvent(secs) == [ev |-> "sleep", secs |-> secs]

\* Entry of fetch_data_from_api up to the loop: resolve the key, fail when it
\* is missing, inject it into the payload.
Enter(c, url, p, var, m, mr, rd) ==
    LET api_key == ResolveKey(env, var) IN
    /\ pc = "idle"
    /\ caller' = c
    /\ api_url' = url
    /\ api_key_env_var' = var
    /\ method' = m
    /\ max_retries' = mr
    /\ retry_delay' = rd
    /\ payload0' = p
    /\ attempt' = 0
    /\ log' = <<>>
    /\ IF KeyMissing(api_key)
       THEN /\ payload' = p
            /\ outcome' = ConfigError(var)
            /\ pc' = "done"
       ELSE /\ payload' = InjectKey(p, api_key)
            /\ outcome' = NoOutcome
            /\ pc' = "loop"
    /\ UNCHANGED <<env, json_error_is_request_exception, now>>
    /\ UNCHANGED normVars
    /\ UNCHANGED stageVars

\* One of the fetch_* dataset functions builds its payload and calls
\* fetch_data_from_api with the default max_retries and retry_delay.
FetchDataset ==
    \E d \in Datasets :
        /\ Enter(d, DatasetUrl(d), DatasetPayload(d, env), DatasetEnvVar(d),
                 DatasetMethod(d), DefaultMaxRetries, DefaultRetryDelay)
        /\ UNCHANGED mainVars

\* Payloads a direct caller passes: one with a registrationkey entry already
\* in it, the BLS payload of the test configuration, a FRED payload.
DirectPayloads(e) ==
    { [registrationkey |-> "stale_key", seriesid |-> <<"CUUR0000SA0">>],
      DatasetPayload("cpi", e),
      DatasetPayload("retail_sales", e) }

RetryDelays == {1, DefaultRetryDelay}

\* A direct call of fetch_data_from_api with arguments of the caller's choice.
DirectCall ==
    \E p \in DirectPayloads(env), var \in EnvVars, m \in {"GET", "POST"},
       mr \in 0..MaxRetriesBound, rd \in RetryDelays :
        /\ Enter("direct", IF var = "BLS_API_KEY" THEN BLS_API_URL ELSE FRED_API_URL,
                 p, var, m, mr, rd)
        /\ UNCHANGED mainVars

\* A variant in which the delay costs the process no time.
AfterSleep_NoWait(t, secs) == t

\* time.sleep(retry_delay): the one thread of the process is blocked for
\* that long.
AfterSleep(t, secs) == t + secs

\* The except branch and the non-200 branch have the same shape: sleep and
\* go round again when attempts remain, raise otherwise.
FailedAttempt(sent, err) ==
    IF CanRetry(attempt, max_retries)
    THEN /\ log' = Append(sent, SleepEvent(retry_delay))
         /\ now' = AfterSleep(now, retry_delay)
         /\ attempt' = attempt + 1
         /\ pc' = "loop"
         /\ outcome' = outcome
    ELSE /\ log' = sent
         /\ now' = now
         /\ attempt' = attempt
         /\ pc' = "done"
         /\ outcome' = err

\* One iteration of the loop body: send, then handle what came back, which
\* is one of the responses R.
AttemptWith(R) ==
    /\ pc = "loop"
    /\ LoopContinues(attempt, max_retries)
    /\ \E resp \in R :
        LET sent == Append(log, SendEvent(Request(method, api_url, payload), resp)) IN
        IF resp.kind = "exception"
        THEN FailedAttempt(sent, NetworkError(max_retries))
        ELSE IF IsSuccess(resp)
        THEN IF resp.text \in DecodableBodies
             THEN /\ log' = sent
                  /\ now' = now
                  /\ attempt' = attempt
                  /\ pc' = "done"
                  /\ outcome' = Returned(JsonDecode(resp.text))
             ELSE IF json_error_is_request_exception
             THEN FailedAttempt(sent, NetworkError(max_retries))
             ELSE /\ log' = sent
                  /\ now' = now
                  /\ attempt' = attempt
                  /\ pc' = "done"
                  /\ outcome' = DecodeError
        ELSE FailedAttempt(sent, StatusError(max_retries, resp.status_code))
    /\ UNCHANGED << env, json_error_is_request_exception, caller, api_url,
                    payload, api_key_env_var, method, max_retries, retry_delay,
                    payload0 >>
    /\ UNCHANGED normVars
    /\ UNCHANGED stageVars

\* An iteration of a call made outside the entry point.
Attempt == AttemptWith(Responses) /\ UNCHANGED mainVars

\* The loop ends without a return or a raise: the function returns None.
FallThrough ==
    /\ pc = "loop"
    /\ ~LoopContinues(attempt, max_retries)
    /\ pc' = "done"
    /\ outcome' = ReturnedNone
    /\ UNCHANGED << env, json_error_is_request_exception, caller, api_url,
                    payload, api_key_env_var, method, max_retries, retry_delay,
                    payload0, attempt, log, now >>
    /\ UNCHANGED normVars
    /\ UNCHANGED mainVars
    /\ UNCHANGED stageVars

Next == FetchDataset \/ DirectCall \/ Attempt \/ FallThrough

Spec == Init /\ [][Next]_vars

\* --------------------------------------------------------- decoded payloads
\* A JSON object whose key order matters (a record of a data list) is a
\* sequence of <<key, value>> pairs with distinct keys; the objects above it
\* are records.
HasKey(rec, k) == \E i \in 1..Len(rec) : rec[i][1] = k

GetItem(rec, k) == rec[CHOOSE i \in 1..Len(rec) : rec[i][1] = k][2]

\* rec[k] = v on a dict: an existing key keeps its place, a new one goes last.
SetItem(rec, k, v) ==
    IF HasKey(rec, k)
    THEN [i \in 1..Len(rec) |-> IF rec[i][1] = k THEN <<k, v>> ELSE rec[i]]
    ELSE Append(rec, <<k, v>>)

SeqRange(q) == {q[i] : i \in 1..Len(q)}

\* Texts pandas parses as numbers, with the number in tenths.
NumericTexts == {"301.8", "303.1", "158942", "322600"}

ParseNumber(text) ==
    CASE text = "301.8" -> 3018
      [] text = "303.1" -> 3031
      [] text = "158942" -> 1589420
      [] text = "322600" -> 3226000

\* A variant that leaves the column as it came: no coercion.
ToNumeric_KeepsText(cell) == cell

\* pd.to_numeric(..., errors="coerce") on one cell.
ToNumeric(cell) ==
    IF cell.t = "num" THEN cell
    ELSE IF cell.t = "str" /\ cell.s \in NumericTexts THEN Num(ParseNumber(cell.s))
    ELSE NaN

\* ------------------------------------------------------------------ pandas
\* A DataFrame: its column names in order and its rows, each a function
\* from the column names to cells.
Frame(cols, rows) == [columns |-> cols, rows |-> rows]

\* The keys of the records in order of first appearance.
RECURSIVE UnionKeys(_, _)
UnionKeys(recs, acc) ==
    IF recs = <<>> THEN acc
    ELSE LET rec == Head(recs)
             new == SelectSeq([i \in 1..Len(rec) |-> rec[i][1]],
                              LAMBDA k : k \notin SeqRange(acc))
         IN UnionKeys(Tail(recs), acc \o new)

\* pd.DataFrame(list_of_dicts): a key a record lacks becomes a null cell.
DataFrame(recs) ==
    LET cols == UnionKeys(recs, <<>>) IN
    Frame(cols,
          [i \in 1..Len(recs) |->
              [c \in SeqRange(cols) |->
                  IF HasKey(recs[i], c) THEN GetItem(recs[i], c) ELSE NaN]])

\* A variant that builds the empty table without its columns: pd.DataFrame().
EmptyFrame_NoColumns(required_fields) == Frame(<<>>, <<>>)

\* pd.DataFrame(columns=required_fields)
EmptyFrame(required_fields) == Frame(required_fields, <<>>)

\* df["value"] = pd.to_numeric(df["value"], errors="coerce")
CoerceValue(df) ==
    Frame(df.columns,
          [i \in 1..Len(df.rows) |-> [df.rows[i] EXCEPT !["value"] = ToNumeric(@)]])

\* A variant that never finds a null: the tolerant policy.
AnyNullValue_Never(df) == FALSE

\* df["value"].isnull().any()
AnyNullValue(df) == \E i \in 1..Len(df.rows) : df.rows[i]["value"].t = "nan"

\* Whether df[fields] finds every field among the columns (KeyError if not).
HasColumns(df, fields) == SeqRange(fields) \subseteq SeqRange(df.columns)

\* A variant that hands back the whole frame: `return df`.
Project_WholeFrame(df, fields) == df

\* df[fields]: the named columns, in the order named.
Project(df, fields) ==
    Frame(fields,
          [i \in 1..Len(df.rows) |-> [c \in SeqRange(fields) |-> df.rows[i][c]]])

\* ------------------------------------------------------------- normalizers
Table(df) == [kind |-> "table", df |-> df]

\* A variant whose message was copied from the BLS normalizer.
StructureError_BlsText(provider) ==
    [ kind |-> "raise", exc |-> "ValueError",
      text |-> "Unexpected BLS API response structure." ]

\* The ValueError an except (KeyError, IndexError) clause raises.
StructureError(provider) ==
    [ kind |-> "raise", exc |-> "ValueError",
      text |-> CASE provider = "BLS" -> "Unexpected BLS API response structure."
                 [] provider = "CES" -> "Unexpected CES API response structure."
                 [] provider = "FRED" -> "Unexpected FRED API response structure." ]

\* The ValueError raised when the value column holds a null after coercion.
InvalidDataError(provider) ==
    [ kind |-> "raise", exc |-> "ValueError",
      text |-> CASE provider = "BLS" -> "Invalid data type in BLS API response"
                 [] provider = "FRED" -> "Invalid data type in FRED API response" ]

\* `k in d` for a dict d: what decides between d[k] and KeyError, and
\* between d.get(k) and its default.
HasField(obj, k) == k \in DOMAIN obj

process_bls_api_response(json_data, required_fields) ==
    LET results == IF HasField(json_data, "Results") THEN json_data.Results ELSE <<>> IN
    IF ~HasField(results, "series") \/ results.series = <<>>
    THEN Table(EmptyFrame(required_fields))
    ELSE IF ~HasField(results.series[1], "data") \/ results.series[1].data = <<>>
    THEN Table(EmptyFrame(required_fields))
    ELSE LET df0 == DataFrame(results.series[1].data)
             df == IF "value" \in SeqRange(df0.columns) THEN CoerceValue(df0) ELSE df0
         IN IF ~HasColumns(df, <<"value">>) THEN StructureError("BLS")
            ELSE IF AnyNullValue(df) THEN InvalidDataError("BLS")
            ELSE IF ~HasColumns(df, required_fields) THEN StructureError("BLS")
            ELSE Table(Project(df, required_fields))

\* A variant that leaves the records as they came.
StampSeriesId_KeepsRecords(series_data, series_id) == series_data

\* `item['seriesID'] = series_id` for every item of the first series' data:
\* the records of the caller's json_data, stamped.
StampSeriesId(series_data, series_id) ==
    [i \in 1..Len(series_data) |-> SetItem(series_data[i], "seriesID", Str(series_id))]

\* A variant of the CES lookup that reads with .get and treats a missing
\* Results or series as no data.
CesSeriesMissing_Empty(json_data, required_fields) == Table(EmptyFrame(required_fields))

\* process_ces_api_response when json_data['Results']['series'] raises
\* KeyError.
CesSeriesMissing(json_data, required_fields) == StructureError("CES")

process_ces_api_response(json_data, required_fields) ==
    IF ~HasField(json_data, "Results") \/ ~HasField(json_data.Results, "series")
    THEN CesSeriesMissing(json_data, required_fields)
    ELSE IF json_data.Results.series = <<>>
    THEN Table(EmptyFrame(required_fields))
    ELSE LET series == json_data.Results.series[1] IN
         IF ~HasField(series, "seriesID") \/ ~HasField(series, "data")
         THEN StructureError("CES")
         ELSE LET df == DataFrame(StampSeriesId(series.data, series.seriesID)) IN
              IF ~HasColumns(df, required_fields) THEN StructureError("CES")
              ELSE Table(Project(df, required_fields))

\* json_data after process_ces_api_response: the records of the first series
\* carry the series id when the loop over them ran.
CesJsonAfter(json_data) ==
    IF /\ HasField(json_data, "Results")
       /\ HasField(json_data.Results, "series")
       /\ json_data.Results.series # <<>>
       /\ HasField(json_data.Results.series[1], "seriesID")
       /\ HasField(json_data.Results.series[1], "data")
    THEN LET s == json_data.Results.series[1] IN
         [json_data EXCEPT !.Results.series[1].data = StampSeriesId(s.data, s.seriesID)]
    ELSE json_data

\* A variant that subscripts json_data["observations"]: a missing key is a
\* KeyError, which the except clause turns into the structure error.
process_fred_api_response_Subscript(json_data, required_fields) ==
    IF ~HasField(json_data, "observations") THEN StructureError("FRED")
    ELSE IF json_data.observations = <<>> THEN Table(EmptyFrame(required_fields))
    ELSE LET df0 == DataFrame(json_data.observations)
             df == IF "value" \in SeqRange(df0.columns) THEN CoerceValue(df0) ELSE df0
         IN IF ~HasColumns(df, <<"value">>) THEN StructureError("FRED")
            ELSE IF AnyNullValue(df) THEN InvalidDataError("FRED")
            ELSE IF ~HasColumns(df, required_fields) THEN StructureError("FRED")
            ELSE Table(Project(df, required_fields))

process_fred_api_response(json_data, required_fields) ==
    IF ~HasField(json_data, "observations") \/ json_data.observations = <<>>
    THEN Table(EmptyFrame(required_fields))
    ELSE LET df0 == DataFrame(json_data.observations)
             df == IF "value" \in SeqRange(df0.columns) THEN CoerceValue(df0) ELSE df0
         IN IF ~HasColumns(df, <<"value">>) THEN StructureError("FRED")
            ELSE IF AnyNullValue(df) THEN InvalidDataError("FRED")
            ELSE IF ~HasColumns(df, required_fields) THEN StructureError("FRED")
            ELSE Table(Project(df, required_fields))

\* ------------------------------------------------- inputs of the normalizers

\* Records of a BLS / CES data list: the plain one of the tests, one with
\* extra fields, one with its keys in another order, one whose value is not
\* a number, one without a value.
BlsRecords ==
    { Rec(<<"year", "periodName", "value">>, <<"2024", "January", "301.8">>),
      Rec(<<"year", "period", "periodName", "value", "footnotes">>,
          <<"2024", "M12", "December", "158942", "[{}]">>),
      Rec(<<"value", "periodName", "year">>, <<"303.1", "February", "2024">>),
      Rec(<<"year", "periodName", "value">>, <<"2024", "March", "-">>),
      Rec(<<"year", "periodName">>, <<"2024", "April">>) }

\* Records of a FRED observations list, likewise.
FredRecords ==
    { Rec(<<"date", "value">>, <<"2024-01-01", "322600">>),
      Rec(<<"realtime_start", "realtime_end", "date", "value">>,
          <<"2025-03-05", "2025-03-05", "2024-04-01", "301.8">>),
      Rec(<<"date", "value">>, <<"2024-07-01", ".">>),
      Rec(<<"date">>, <<"2024-10-01">>) }

\* The sequences over S of length at most n.
SeqsUpTo(S, n) == UNION {[1..k -> S] : k \in 0..n}

\* A series object: with or without its seriesID, with or without data.
SeriesObjects ==
    LET lists == SeqsUpTo(BlsRecords, MaxRecords) IN
    {[seriesID |-> "CES0000000001", data |-> d] : d \in lists}
      \cup {[data |-> d] : d \in lists}
      \cup {[seriesID |-> "CES0000000001"], [catalog |-> "none"]}

\* A second series, which no normalizer reads.
OtherSeries ==
    [ seriesID |-> "CES0500000001",
      data |-> << Rec(<<"year", "periodName", "value">>, <<"2023", "May", "303.1">>) >> ]

JsonDocs ==
    { <<>>, [status |-> "REQUEST_SUCCEEDED"], [Results |-> <<>>],
      [Results |-> [series |-> <<>>]] }
      \cup {[Results |-> [series |-> <<s>>]] : s \in SeriesObjects}
      \cup {[Results |-> [series |-> <<s, OtherSeries>>]] : s \in SeriesObjects}
      \cup {[observations |-> o] : o \in SeqsUpTo(FredRecords, MaxRecords)}

\* The required_fields of the dataset functions, and one that reorders.
FieldLists ==
    { <<"year", "periodName", "value">>,
      <<"seriesID", "year", "periodName", "value">>,
      <<"date", "value">>,
      <<"value", "year">> }

InitNorm ==
    /\ env = [v \in EnvVars |-> PyNone]
    /\ json_error_is_request_exception = TRUE
    /\ FetchIdle
    /\ nz_fn = "none"
    /\ nz_json \in JsonDocs
    /\ nz_json0 = nz_json
    /\ nz_fields \in FieldLists
    /\ nz_result = NoOutcome
    /\ now = 0
    /\ MainIdle
    /\ StageIdle

NormalizeBls ==
    /\ nz_fn = "none"
    /\ nz_fn' = "BLS"
    /\ nz_result' = process_bls_api_response(nz_json, nz_fields)
    /\ UNCHANGED << nz_json, nz_json0, nz_fields >>
    /\ UNCHANGED fetchVars
    /\ UNCHANGED mainVars
    /\ UNCHANGED stageVars

NormalizeCes ==
    /\ nz_fn = "none"
    /\ nz_fn' = "CES"
    /\ nz_result' = process_ces_api_response(nz_json, nz_fields)
    /\ nz_json' = CesJsonAfter(nz_json)
    /\ UNCHANGED << nz_json0, nz_fields >>
    /\ UNCHANGED fetchVars
    /\ UNCHANGED mainVars
    /\ UNCHANGED stageVars

NormalizeFred ==
    /\ nz_fn = "none"
    /\ nz_fn' = "FRED"
    /\ nz_result' = process_fred_api_response(nz_json, nz_fields)
    /\ UNCHANGED << nz_json, nz_json0, nz_fields >>
    /\ UNCHANGED fetchVars
    /\ UNCHANGED mainVars
    /\ UNCHANGED stageVars

NextNorm == NormalizeBls \/ NormalizeCes \/ NormalizeFred

SpecNorm == InitNorm /\ [][NextNorm]_vars

\* ---------------------------------------------------------- save_data_to_csv
\* How to_csv writes a number (held in tenths): a column of whole numbers is
\* int64 and is written without a decimal point, a column with a fraction in
\* it is float64 and every number of it is written with one.
NumberText(n, as_float) ==
    CASE n = 3018 -> "301.8"
      [] n = 3031 -> "303.1"
      [] n = 1589420 -> IF as_float THEN "158942.0" ELSE "158942"
      [] n = 3226000 -> IF as_float THEN "322600.0" ELSE "322600"
      [] n = 20240 -> IF as_float THEN "2024.0" ELSE "2024"

IsFloatColumn(df, c) ==
    \E i \in 1..Len(df.rows) :
        \/ df.rows[i][c].t = "nan"
        \/ df.rows[i][c].t = "num" /\ df.rows[i][c].n % 10 # 0

CellText(cell, as_float) ==
    CASE cell.t = "str" -> cell.s
      [] cell.t = "num" -> NumberText(cell.n, as_float)
      [] cell.t = "nan" -> ""

\* A variant that writes the index too: to_csv with index=True puts an
\* unnamed column of row numbers first.
ToCsv_WithIndex(df) ==
    [ kind |-> "file",
      header |-> <<"Unnamed: 0">> \o df.columns,
      lines |-> [i \in 1..Len(df.rows) |->
                    <<"0">> \o
                    [j \in 1..Len(df.columns) |->
                        CellText(df.rows[i][df.columns[j]],
                                 IsFloatColumn(df, df.columns[j]))]] ]

\* df.to_csv(output_path, index=False): the header line, then one line per
\* row, each line the texts of its cells.
ToCsv(df) ==
    [ kind |-> "file",
      header |-> df.columns,
      lines |-> [i \in 1..Len(df.rows) |->
                    [j \in 1..Len(df.columns) |->
                        CellText(df.rows[i][df.columns[j]],
                                 IsFloatColumn(df, df.columns[j]))]] ]

\* os.makedirs(os.path.dirname(output_path), exist_ok=True)
MakeDirs(ds, dir) == ds \cup {dir}

\* A variant that opens the file in append mode: the lines go after those
\* of a file that is already there.
SaveCsv_Appends(fs, df, output_path) ==
    IF fs[output_path].kind = "file"
    THEN [fs EXCEPT ![output_path].lines = @ \o ToCsv(df).lines]
    ELSE [fs EXCEPT ![output_path] = ToCsv(df)]

\* The files after save_data_to_csv(df, output_path): the file is created or
\* replaced.
SaveCsv(fs, df, output_path) == [fs EXCEPT ![output_path] = ToCsv(df)]

\* ---------------------------------------------------------------- entry point
\* The normalizer each dataset function applies to the decoded response.
Normalize(d, json_data) ==
    CASE d = "cpi" -> process_bls_api_response(json_data, DatasetFields(d))
      [] d = "ces" -> process_ces_api_response(json_data, DatasetFields(d))
      [] OTHER -> process_fred_api_response(json_data, DatasetFields(d))

\* process_*_api_response(None, ...): None has no .get and no subscript.
NormalizeNone(d) ==
    [ kind |-> "raise",
      exc |-> IF d = "ces" THEN "TypeError" ELSE "AttributeError",
      text |-> "NoneType" ]

\* The 200 bodies a run is explored with, per dataset: one its normalizer
\* accepts and one it rejects and, for the CPI, one with no data.
RunBodies(d) ==
    CASE d = "cpi" -> {BlsBody, BlsBadBody, "{}"}
      [] d = "ces" -> {BlsBody, "{}"}
      [] OTHER -> {FredBody, FredBadBody}

\* The responses that make an attempt fail.
FailingResponses ==
    { [kind |-> "http", status_code |-> 200, text |-> "<html>Bad Gateway</html>"],
      [kind |-> "http", status_code |-> 500, text |-> "Internal Server Error"],
      [kind |-> "exception", status_code |-> 0, text |-> "Timeout"] }

\* The sends of a log that did not get a decodable 200.
FailedSends(l) ==
    Len(SelectSeq(l, LAMBDA e : e.ev = "send" /\ e.resp \in FailingResponses))

RECURSIVE SumFailed(_)
SumFailed(h) ==
    IF h = <<>> THEN 0
    ELSE (IF Head(h).ev = "end" THEN Head(h).failed ELSE 0) + SumFailed(Tail(h))

RunResponses(d) ==
    [kind : {"http"}, status_code : {200}, text : RunBodies(d)]
      \cup (IF SumFailed(history) + FailedSends(log) < MaxRunFailures
            THEN FailingResponses ELSE {})

StartEvent(d, t) == [ev |-> "start", dataset |-> d, at |-> t]

EndEvent(d, t, l, result, written, error) ==
    [ ev |-> "end", dataset |-> d, at |-> t, error |-> error,
      sends |-> Len(SelectSeq(l, LAMBDA e : e.ev = "send")),
      sleeps |-> Len(SelectSeq(l, LAMBDA e : e.ev = "sleep")),
      failed |-> FailedSends(l),
      result |-> result, written |-> written ]

\* What a previous run left in an output file.
OldFile ==
    [ kind |-> "file", header |-> <<"date", "value">>,
      lines |-> << <<"2019-01-01", "100.0">> >> ]

InitRun ==
    /\ env \in [EnvVars -> EnvValues]
    /\ json_error_is_request_exception \in BOOLEAN
    /\ FetchIdle
    /\ NormIdle
    /\ now = 0
    /\ main_pc = "ready"
    /\ main_next = 1
    /\ main_error = NoOutcome
    /\ history = <<>>
    /\ StageIdle
    /\ \E old \in BOOLEAN :
          /\ dirs = IF old THEN {RawDir} ELSE {}
          /\ files = [f \in AllPaths |-> IF old /\ f \in Paths THEN OldFile ELSE NoFile]

\* Where the entry point stands after the dataset function at index n ended
\* with result: a variant that goes on with the next function after an
\* exception, as a loop with try/except around each call would.
MainAfter_SkipsFailed(result, n) ==
    [ pc |-> IF n = Len(DatasetOrder) THEN "exited" ELSE "ready",
      next |-> n + 1,
      error |-> IF result.kind = "raise" THEN result ELSE main_error ]

\* A variant that calls the same function again when its normalizer raised.
MainAfter_RefetchesRejected(result, n) ==
    IF result.kind = "raise"
    THEN IF result.exc = "ValueError" /\ pc = "done" /\ outcome.kind = "return"
         THEN [pc |-> "ready", next |-> n, error |-> main_error]
         ELSE [pc |-> "exited", next |-> n, error |-> result]
    ELSE [ pc |-> IF n = Len(DatasetOrder) THEN "exited" ELSE "ready",
           next |-> n + 1, error |-> main_error ]

\* A variant that returns before the last function.
MainAfter_StopsEarly(result, n) ==
    IF result.kind = "raise"
    THEN [pc |-> "exited", next |-> n, error |-> result]
    ELSE [ pc |-> IF n >= Len(DatasetOrder) - 1 THEN "exited" ELSE "ready",
           next |-> n + 1, error |-> main_error ]

\* The calls of the entry point are statements one after another with no
\* try around them: an exception ends the process with the remaining calls
\* not made, a return goes on to the next call.
MainAfter(result, n) ==
    IF result.kind = "raise"
    THEN [pc |-> "exited", next |-> n, error |-> result]
    ELSE [ pc |-> IF n = Len(DatasetOrder) THEN "exited" ELSE "ready",
           next |-> n + 1, error |-> main_error ]

\* A variant that leaves a header-only file behind when the function fails,
\* as a save in a finally clause would.
FilesAfter_SavesOnFailure(fs, d, result) ==
    IF result.kind = "table"
    THEN SaveCsv(fs, result.df, DatasetPath(d))
    ELSE SaveCsv(fs, EmptyFrame(DatasetFields(d)), DatasetPath(d))

\* The files after a dataset function: save_data_to_csv is its last
\* statement, reached only when the fetch and the normalizer both returned.
FilesAfter(fs, d, result) ==
    IF result.kind = "table"
    THEN SaveCsv(fs, result.df, DatasetPath(d))
    ELSE fs

\* The entry point calls its next dataset function, which builds its payload
\* and enters fetch_data_from_api.
CallDataset ==
    /\ main_pc = "ready"
    /\ LET d == DatasetOrder[main_next] IN
        /\ Enter(d, DatasetUrl(d), DatasetPayload(d, env), DatasetEnvVar(d),
                 DatasetMethod(d), DefaultMaxRetries, DefaultRetryDelay)
        /\ history' = Append(history, StartEvent(d, now))
    /\ main_pc' = "fetching"
    /\ UNCHANGED << main_next, main_error, dirs, files >>

\* An iteration of the call a dataset function made.
AttemptInRun ==
    /\ main_pc = "fetching"
    /\ AttemptWith(RunResponses(caller))
    /\ UNCHANGED mainVars

\* The rest of a dataset function once fetch_data_from_api has returned or
\* raised: normalize, save, return to the entry point; an exception from any
\* of the three leaves the function and the entry point.
FinishDataset ==
    /\ main_pc = "fetching"
    /\ pc = "done"
    /\ LET d == caller
           result == IF outcome.kind = "raise" THEN outcome
                     ELSE IF outcome.none THEN NormalizeNone(d)
                     ELSE Normalize(d, outcome.value)
           after == MainAfter(result, main_next)
       IN /\ files' = FilesAfter(files, d, result)
          /\ IF result.kind = "table"
             THEN /\ dirs' = MakeDirs(dirs, RawDir)
                  /\ history' = Append(history,
                        EndEvent(d, now, log, "saved", ToCsv(result.df), NoOutcome))
             ELSE /\ dirs' = dirs
                  /\ history' = Append(history,
                        EndEvent(d, now, log,
                                 IF outcome.kind = "raise" THEN "fetch_raised"
                                 ELSE "normalizer_raised", NoFile, result))
          /\ main_pc' = after.pc
          /\ main_next' = after.next
          /\ main_error' = after.error
    /\ caller' = "nobody"
    /\ api_url' = ""
    /\ payload' = <<>>
    /\ payload0' = <<>>
    /\ api_key_env_var' = ""
    /\ method' = ""
    /\ max_retries' = 0
    /\ retry_delay' = 0
    /\ attempt' = 0
    /\ pc' = "idle"
    /\ outcome' = NoOutcome
    /\ log' = <<>>
    /\ UNCHANGED << env, json_error_is_request_exception, now >>
    /\ UNCHANGED normVars
    /\ UNCHANGED stageVars

NextRun == CallDataset \/ AttemptInRun \/ FinishDataset

SpecRun == InitRun /\ [][NextRun]_vars

\* -------------------------------------------------------------- pd.read_csv
\* Texts the CSV parser reads as whole numbers, and as numbers at all.
CsvIntTexts == {"158942", "322600", "2020", "2021", "2024", "1", "2", "12"}

CsvNumericTexts == CsvIntTexts \cup {"301.8", "303.1", "158942.0", "322600.0"}

\* The number a numeric text stands for, in tenths.
CsvNumber(text) ==
    CASE text \in NumericTexts -> ParseNumber(text)
      [] text = "158942.0" -> 1589420
      [] text = "322600.0" -> 3226000
      [] text = "2020" -> 20200
      [] text = "2021" -> 20210
      [] text = "2024" -> 20240
      [] text = "1" -> 10
      [] text = "2" -> 20
      [] text = "12" -> 120

\* The dtype read_csv infers for a column from the texts of its cells: int64
\* when every cell is a whole number, float64 when every cell is a number
\* or empty, object otherwise (and for a column with no cells).
ColumnKind(texts) ==
    IF texts = <<>> THEN "object"
    ELSE IF \A i \in 1..Len(texts) : texts[i] \in CsvIntTexts THEN "int"
    ELSE IF \A i \in 1..Len(texts) : texts[i] \in CsvNumericTexts \cup {""} THEN "float"
    ELSE "object"

\* One cell as read: an empty field is a null.
ReadCell(text, kind) ==
    IF text = "" THEN NaN
    ELSE IF kind = "object" THEN Str(text)
    ELSE Num(CsvNumber(text))

\* pd.read_csv(path) of a file with a header line.
ReadCsv(file) ==
    LET kind(j) == ColumnKind([i \in 1..Len(file.lines) |-> file.lines[i][j]]) IN
    Frame(file.header,
          [i \in 1..Len(file.lines) |->
              [c \in SeqRange(file.header) |->
                  LET j == CHOOSE k \in 1..Len(file.header) : file.header[k] = c
                  IN ReadCell(file.lines[i][j], kind(j))]])

\* ------------------------------------------------- save_data_to_csv, directly
\* The responses whose tables are saved: the decodable bodies, and responses
\* with two records, among them a whole number next to a fraction and a
\* record without its value.
SaveDocs ==
    LET jan == Rec(<<"year", "periodName", "value">>, <<"2024", "January", "301.8">>)
        dec == Rec(<<"year", "period", "periodName", "value", "footnotes">>,
                   <<"2024", "M12", "December", "158942", "[{}]">>)
        apr == Rec(<<"year", "periodName">>, <<"2024", "April">>)
        series(d) == [Results |-> [series |-> <<[seriesID |-> "CES0000000001", data |-> d]>>]]
    IN {JsonDecode(b) : b \in DecodableBodies}
         \cup {series(<<jan, dec>>), series(<<dec, dec>>), series(<<dec, apr>>)}
         \cup {[observations |->
                   << Rec(<<"date", "value">>, <<"2024-01-01", "322600">>),
                      Rec(<<"realtime_start", "realtime_end", "date", "value">>,
                          <<"2025-03-05", "2025-03-05", "2024-04-01", "301.8">>) >>]}

\* The tables the dataset functions hand to save_data_to_csv: what each
\* normalizer returns, with the required_fields of its dataset function.
SaveTables ==
    LET results ==
            {process_bls_api_response(j, DatasetFields("cpi")) : j \in SaveDocs}
              \cup {process_ces_api_response(j, DatasetFields("ces")) : j \in SaveDocs}
              \cup {process_fred_api_response(j, DatasetFields("pce")) : j \in SaveDocs}
    IN {r.df : r \in {x \in results : x.kind = "table"}}

SavePaths == {DatasetPath("cpi"), DatasetPath("pce")}

InitSave ==
    /\ env = [v \in EnvVars |-> PyNone]
    /\ json_error_is_request_exception = TRUE
    /\ FetchIdle
    /\ NormIdle
    /\ now = 0
    /\ main_pc = "idle"
    /\ main_next = 1
    /\ main_error = NoOutcome
    /\ history = <<>>
    /\ StageIdle
    /\ \E old \in BOOLEAN :
          /\ dirs = IF old THEN {RawDir} ELSE {}
          /\ files = [f \in AllPaths |-> IF old /\ f \in Paths THEN OldFile ELSE NoFile]

\* save_data_to_csv(df, output_path)
SaveDataToCsv ==
    /\ stage = "none"
    /\ Len(io_log) < MaxSaves
    /\ \E df \in SaveTables, output_path \in SavePaths :
          /\ dirs' = MakeDirs(dirs, DirName(output_path))
          /\ files' = SaveCsv(files, df, output_path)
          /\ io_log' = Append(io_log, [df |-> df, output_path |-> output_path])
    /\ UNCHANGED << stage, stage_in, stage_out >>
    /\ UNCHANGED << main_pc, main_next, main_error, history >>
    /\ UNCHANGED fetchVars
    /\ UNCHANGED normVars

\* pd.read_csv(output_path) of a file that was saved.
ReadBack ==
    /\ stage = "none"
    /\ \E output_path \in SavePaths :
          /\ \E i \in 1..Len(io_log) : io_log[i].output_path = output_path
          /\ stage' = "read_csv"
          /\ stage_in' = output_path
          /\ stage_out' = Table(ReadCsv(files[output_path]))
    /\ UNCHANGED io_log
    /\ UNCHANGED mainVars
    /\ UNCHANGED fetchVars
    /\ UNCHANGED normVars

NextSave == SaveDataToCsv \/ ReadBack

SpecSave == InitSave /\ [][NextSave]_vars

\* ------------------------------------------------------------- load_cpi_data
\* The file the later stages read the CPI table from.
CPI_FILE == "data/raw/cpi_data.csv"

\* The month names that format="%B" parses, in the order of their numbers.
MonthNames ==
    << "January", "February", "March", "April", "May", "June", "July",
       "August", "September", "October", "November", "December" >>

\* pd.to_datetime(periodName, format="%B").dt.month of one name that parses.
MonthNumber(name) == CHOOSE m \in 1..Len(MonthNames) : MonthNames[m] = name

\* A variant of the check that stops at November: range(1, 12).
MonthsChecked_StopsAtNovember == 1..11

\* The months the check goes through: range(1, 13).
MonthsChecked == 1..12

\* The values of a sequence, each once, in the order of first appearance:
\* Series.unique().
RECURSIVE Unique(_)
Unique(q) ==
    IF q = <<>> THEN <<>>
    ELSE LET rest == Unique(SubSeq(q, 1, Len(q) - 1)) IN
         IF q[Len(q)] \in SeqRange(rest) THEN rest ELSE Append(rest, q[Len(q)])

\* The year of a row as the key of the dictionary holds it.
YearOf(row) == row["year"].n \div 10

MissingCpiError(year, month) ==
    [ kind |-> "raise", exc |-> "KeyError",
      text |-> "Missing CPI data for ({year}, {month})",
      year |-> year, month |-> month ]

\* load_cpi_data(cpi_path): read the file, turn periodName into the number
\* of the month, build {(year, month): value} (a later row replaces an
\* earlier one with its key), then look for every month of every year of
\* the file and raise at the first that is not there.
load_cpi_data(fs, cpi_path) ==
    IF fs[cpi_path].kind # "file"
    THEN [kind |-> "raise", exc |-> "FileNotFoundError", text |-> cpi_path]
    ELSE
    LET cpi_df == ReadCsv(fs[cpi_path])
        n == Len(cpi_df.rows)
    IN
    IF \E i \in 1..n : cpi_df.rows[i]["periodName"] \notin {Str(MonthNames[m]) : m \in 1..Len(MonthNames)}
    THEN [kind |-> "raise", exc |-> "ValueError",
          text |-> "time data doesn't match format \"%B\""]
    ELSE
    LET key(i) == << YearOf(cpi_df.rows[i]), MonthNumber(cpi_df.rows[i]["periodName"].s) >>
        keys == {key(i) : i \in 1..n}
        cpi_dict == [k \in keys |->
                        cpi_df.rows[CHOOSE i \in 1..n :
                            /\ key(i) = k
                            /\ \A j \in 1..n : key(j) = k => j <= i]["value"]]
        years == Unique([i \in 1..n |-> YearOf(cpi_df.rows[i])])
        incomplete == {y \in 1..Len(years) :
                          \E month \in MonthsChecked : <<years[y], month>> \notin keys}
    IN
    IF incomplete = {} THEN [kind |-> "return", value |-> cpi_dict]
    ELSE LET y == CHOOSE a \in incomplete : \A b \in incomplete : a <= b
             month == CHOOSE a \in MonthsChecked :
                          /\ <<years[y], a>> \notin keys
                          /\ \A b \in MonthsChecked : <<years[y], b>> \notin keys => a <= b
         IN MissingCpiError(years[y], month)

\* The months a year of a CPI file has rows for: all of them, all but one,
\* January only, or none (the year is not in the file).
MonthSets ==
    {1..12, {1}, {}} \cup {(1..12) \ {m} : m \in 1..12}

\* The lines of one year, from January on.
RECURSIVE YearLines(_, _, _)
YearLines(year, months, from) ==
    IF from > 12 THEN <<>>
    ELSE (IF from \in months THEN << <<year, MonthNames[from], "301.8">> >> ELSE <<>>)
            \o YearLines(year, months, from + 1)

\* CPI files as fetch_cpi_data writes them, with the rows of 2020 and of
\* 2021 in either order; a file with no rows is the header alone.
CpiFiles ==
    { [ kind |-> "file",
        header |-> <<"year", "periodName", "value">>,
        lines |-> IF first = "2020"
                  THEN YearLines("2020", a, 1) \o YearLines("2021", b, 1)
                  ELSE YearLines("2021", b, 1) \o YearLines("2020", a, 1) ] :
        a \in MonthSets, b \in MonthSets, first \in {"2020", "2021"} }

InitCpi ==
    /\ env = [v \in EnvVars |-> PyNone]
    /\ json_error_is_request_exception = TRUE
    /\ FetchIdle
    /\ NormIdle
    /\ now = 0
    /\ main_pc = "idle"
    /\ main_next = 1
    /\ main_error = NoOutcome
    /\ history = <<>>
    /\ StageIdle
    /\ dirs = {RawDir}
    /\ \E file \in CpiFiles :
          files = [f \in AllPaths |-> IF f = CPI_FILE THEN file ELSE NoFile]

LoadCpiData ==
    /\ stage = "none"
    /\ stage' = "load_cpi_data"
    /\ stage_in' = CPI_FILE
    /\ stage_out' = load_cpi_data(files, CPI_FILE)
    /\ UNCHANGED io_log
    /\ UNCHANGED mainVars
    /\ UNCHANGED fetchVars
    /\ UNCHANGED normVars

NextCpi == LoadCpiData

SpecCpi == InitCpi /\ [][NextCpi]_vars

\* ------------------------------------------------------------ merge_datasets
\* The columns merge_datasets joins on.
MergeKeys == <<"year", "month">>

\* validate_columns: the required columns the table lacks.
MissingColumns(df, required_columns) == required_columns \ SeqRange(df.columns)

MissingColumnsError(missing) ==
    [ kind |-> "raise", exc |-> "KeyError",
      text |-> "Missing required columns: {missing}", missing |-> missing ]

\* The dtype of a column as merge sees it: numbers, or objects (strings, or
\* a column with no cells).
KeyKind(df, c) ==
    IF df.rows = <<>> THEN "empty"
    ELSE IF \A i \in 1..Len(df.rows) : df.rows[i][c].t = "num" THEN "number"
    ELSE "object"

\* pandas refuses to merge a column of numbers with a column of strings;
\* it does not look at the dtypes when one side has no rows.
MergeKeysClash(left, right) ==
    \E i \in 1..Len(MergeKeys) :
        LET l == KeyKind(left, MergeKeys[i])
            r == KeyKind(right, MergeKeys[i])
        IN l # "empty" /\ r # "empty" /\ l # r

MergeTypeError ==
    [ kind |-> "raise", exc |-> "ValueError",
      text |-> "You are trying to merge on {l} and {r} columns" ]

\* The rows of the right table with the keys of a left row, in their order.
Matches(row, right) ==
    SelectSeq(right.rows,
              LAMBDA r : \A i \in 1..Len(MergeKeys) : r[MergeKeys[i]] = row[MergeKeys[i]])

\* The columns of the merged table: those of the left table, then those of
\* the right table that are not keys.
MergedColumns(left, right) ==
    left.columns \o SelectSeq(right.columns, LAMBDA c : c \notin SeqRange(MergeKeys))

\* A left row joined with a right row, or with nulls when there is none.
JoinRow(row, rrow, left, right) ==
    [c \in SeqRange(MergedColumns(left, right)) |->
        IF c \in SeqRange(left.columns) THEN row[c]
        ELSE IF rrow = <<>> THEN NaN ELSE rrow[1][c]]

\* A variant of the join that drops the left rows without a match:
\* how="inner".
JoinedRows_Inner(row, left, right) ==
    LET found == Matches(row, right) IN
    [k \in 1..Len(found) |-> JoinRow(row, <<found[k]>>, left, right)]

\* how="left": the rows a left row contributes, one per matching right row
\* and one with nulls when nothing matches.
JoinedRows(row, left, right) ==
    LET found == Matches(row, right) IN
    IF found = <<>> THEN << JoinRow(row, <<>>, left, right) >>
    ELSE [k \in 1..Len(found) |-> JoinRow(row, <<found[k]>>, left, right)]

RECURSIVE LeftJoin(_, _, _)
LeftJoin(rows, left, right) ==
    IF rows = <<>> THEN <<>>
    ELSE JoinedRows(Head(rows), left, right) \o LeftJoin(Tail(rows), left, right)

\* merge_datasets(sales_df, cpi_df): validate both tables, then
\* sales_df.merge(cpi_df, on=["year", "month"], how="left").
merge_datasets(sales_df, cpi_df) ==
    IF MissingColumns(sales_df, SeqRange(MergeKeys)) # {}
    THEN MissingColumnsError(MissingColumns(sales_df, SeqRange(MergeKeys)))
    ELSE IF MissingColumns(cpi_df, SeqRange(MergeKeys)) # {}
    THEN MissingColumnsError(MissingColumns(cpi_df, SeqRange(MergeKeys)))
    ELSE IF MergeKeysClash(sales_df, cpi_df) THEN MergeTypeError
    ELSE Table(Frame(MergedColumns(sales_df, cpi_df),
                     LeftJoin(sales_df.rows, sales_df, cpi_df)))

\* Sales rows as transform_sales_months leaves them, and CPI rows as
\* preprocess_cpi_data leaves them: with the year a number, as read from a
\* file, or a string, as the API sent it.
SalesRows ==
    { [year |-> Num(20240), month |-> Str(m), sales |-> Num(100000)] :
        m \in {"January", "February"} }

CpiRows ==
    { [year |-> y, month |-> Str(m), CPI_U |-> Num(3018)] :
        y \in {Num(20240), Str("2024")}, m \in {"January", "February"} }

SalesTables ==
    {Frame(<<"year", "month", "sales">>, q) : q \in SeqsUpTo(SalesRows, MaxRows)}
      \cup {Frame(<<"year", "sales">>, <<[year |-> Num(20240), sales |-> Num(100000)]>>)}

CpiTables ==
    {Frame(<<"year", "month", "CPI_U">>, q) : q \in SeqsUpTo(CpiRows, MaxRows)}
      \cup {Frame(<<"year", "periodName", "value">>,
                  <<[year |-> Num(20240), periodName |-> Str("January"),
                     value |-> Num(3018)]>>)}

InitMerge ==
    /\ env = [v \in EnvVars |-> PyNone]
    /\ json_error_is_request_exception = TRUE
    /\ FetchIdle
    /\ NormIdle
    /\ now = 0
    /\ MainIdle
    /\ io_log = <<>>
    /\ stage = "none"
    /\ stage_in \in [sales : SalesTables, cpi : CpiTables]
    /\ stage_out = NoOutcome

MergeDatasets ==
    /\ stage = "none"
    /\ stage' = "merge_datasets"
    /\ stage_out' = merge_datasets(stage_in.sales, stage_in.cpi)
    /\ UNCHANGED << io_log, stage_in >>
    /\ UNCHANGED mainVars
    /\ UNCHANGED fetchVars
    /\ UNCHANGED normVars

NextMerge == MergeDatasets

SpecMerge == InitMerge /\ [][NextMerge]_vars

\* ---------------------------------------------------------------- merge_data
\* A variant of load_data without the df.empty test: a file with no data
\* rows is returned as a table with no rows.
load_data_AcceptsNoRows(fs, file_path) ==
    IF fs[file_path].kind # "file"
    THEN [ kind |-> "raise", exc |-> "FileNotFoundError", where |-> "load_data",
           text |-> "File not found: {file_path}" ]
    ELSE IF fs[file_path].header = <<>>
    THEN [ kind |-> "raise", exc |-> "ValueError", where |-> "load_data",
           text |-> "{file_path} is empty or has no columns." ]
    ELSE Table(ReadCsv(fs[file_path]))

\* load_data(file_path): pd.read_csv, with a missing file reported as
\* FileNotFoundError, a file with no header line as ValueError, and a table
\* with no rows as ValueError too.
load_data(fs, file_path) ==
    IF fs[file_path].kind # "file"
    THEN [ kind |-> "raise", exc |-> "FileNotFoundError", where |-> "load_data",
           text |-> "File not found: {file_path}" ]
    ELSE IF fs[file_path].header = <<>>
    THEN [ kind |-> "raise", exc |-> "ValueError", where |-> "load_data",
           text |-> "{file_path} is empty or has no columns." ]
    ELSE IF fs[file_path].lines = <<>>
    THEN [ kind |-> "raise", exc |-> "ValueError", where |-> "load_data",
           text |-> "{file_path} is empty." ]
    ELSE Table(ReadCsv(fs[file_path]))

\* The name preprocess_cpi_data gives a column.
CpiColumnName(c) ==
    CASE c = "value" -> "CPI_U"
      [] c = "periodName" -> "month"
      [] OTHER -> c

\* preprocess_cpi_data(df): df.rename(columns={"value": "CPI_U",
\* "periodName": "month"}).
preprocess_cpi_data(df) ==
    Frame([j \in 1..Len(df.columns) |-> CpiColumnName(df.columns[j])],
          [i \in 1..Len(df.rows) |->
              [c \in {CpiColumnName(df.columns[j]) : j \in 1..Len(df.columns)} |->
                  df.rows[i][CHOOSE o \in SeqRange(df.columns) : CpiColumnName(o) = c]]])

\* transform_sales_months(df): the number of the month becomes its name.
transform_sales_months(df) ==
    IF MissingColumns(df, {"year", "month"}) # {}
    THEN [ kind |-> "raise", exc |-> "KeyError", where |-> "transform_sales_months",
           text |-> "Missing required column: {missing}" ]
    ELSE Table(Frame(df.columns,
                     [i \in 1..Len(df.rows) |->
                         [df.rows[i] EXCEPT !["month"] = Str(MonthNames[@.n \div 10])]]))

\* merge_data(): load and rename the CPI table, load and transform the
\* sales table, merge, save to MERGED_FILE; the first exception ends it.
\* save_data writes with to_csv alone, which needs the directory to exist.
merge_data(fs, ds) ==
    LET cpi == load_data(fs, CPI_FILE) IN
    IF cpi.kind = "raise" THEN [outcome |-> cpi, files |-> fs]
    ELSE
    LET cpi_df == preprocess_cpi_data(cpi.df)
        sales == load_data(fs, SALES_FILE)
    IN
    IF sales.kind = "raise" THEN [outcome |-> sales, files |-> fs]
    ELSE
    LET sales_df == transform_sales_months(sales.df) IN
    IF sales_df.kind = "raise" THEN [outcome |-> sales_df, files |-> fs]
    ELSE
    LET merged == merge_datasets(sales_df.df, cpi_df) IN
    IF merged.kind = "raise"
    THEN [outcome |-> merged @@ [where |-> "merge_datasets"],
          files |-> fs]
    ELSE IF DirName(MERGED_FILE) \notin ds
    THEN [outcome |-> [ kind |-> "raise", exc |-> "OSError", where |-> "save_data",
                        text |-> "Cannot save file into a non-existent directory" ],
          files |-> fs]
    ELSE [outcome |-> ReturnedNone, files |-> SaveCsv(fs, merged.df, MERGED_FILE)]

\* A sales file: two months of 2024.
SalesFile ==
    [ kind |-> "file", header |-> <<"year", "month", "total_sales">>,
      lines |-> << <<"2024", "1", "158942">>, <<"2024", "2", "322600">> >> ]

\* The collector is about to run; the sales file is there or not, and so is
\* the directory of the merged file.
InitPipe ==
    /\ env \in [EnvVars -> EnvValues]
    /\ json_error_is_request_exception \in BOOLEAN
    /\ FetchIdle
    /\ NormIdle
    /\ now = 0
    /\ main_pc = "ready"
    /\ main_next = 1
    /\ main_error = NoOutcome
    /\ history = <<>>
    /\ StageIdle
    /\ \E old \in BOOLEAN, sales \in {NoFile, SalesFile} :
          /\ dirs = IF old THEN {RawDir, ProcessedDir} ELSE {}
          /\ files = [f \in AllPaths |->
                         IF f = SALES_FILE THEN sales
                         ELSE IF old /\ f \in Paths THEN OldFile ELSE NoFile]

\* A run of process_data.py after the collector has exited.
MergeData ==
    /\ main_pc = "exited"
    /\ stage = "none"
    /\ LET run == merge_data(files, dirs) IN
          /\ stage' = "merge_data"
          /\ stage_in' = CPI_FILE
          /\ stage_out' = run.outcome
          /\ files' = run.files
    /\ UNCHANGED io_log
    /\ UNCHANGED << main_pc, main_next, main_error, dirs, history >>
    /\ UNCHANGED fetchVars
    /\ UNCHANGED normVars

NextPipe == CallDataset \/ AttemptInRun \/ FinishDataset \/ MergeData

SpecPipe == InitPipe /\ [][NextPipe]_vars

\* ------------------------------------------------- reading the call's log
SendIndexes == {i \in 1..Len(log) : log[i].ev = "send"}

SleepIndexes == {i \in 1..Len(log) : log[i].ev = "sleep"}

Sends == Cardinality(SendIndexes)

Sleeps == Cardinality(SleepIndexes)

\* The attempt received status 200 with a body that decodes.
Got200(resp) ==
    resp.kind = "http" /\ resp.status_code = 200 /\ resp.text \in DecodableBodies

GotNon200(resp) == resp.kind = "http" /\ resp.status_code # 200

\* The attempt raised a requests exception: from the transport, or from
\* response.json() where the installed requests raises one there.
GotRequestException(resp) ==
    \/ resp.kind = "exception"
    \/ /\ resp.kind = "http" /\ resp.status_code = 200
       /\ resp.text \notin DecodableBodies
       /\ json_error_is_request_exception

AttemptFailed(resp) == GotNon200(resp) \/ GotRequestException(resp)

AllSendsFailed == \A i \in SendIndexes : AttemptFailed(log[i].resp)

KeyIsSet == pc # "idle" /\ env[api_key_env_var] \notin {PyNone, ""}

\* The log is send, sleep, send, sleep, ..., send: the n-th send is at
\* position 2n-1 and a sleep separates two sends.
Alternates ==
    \A i \in 1..Len(log) : log[i].ev = (IF i % 2 = 1 THEN "send" ELSE "sleep")

\* ------------------------------------------------------------------ claims

\* C1: when the first k attempts fail (k < max_retries) and attempt k+1 gets
\* status 200, the call returns the decoded body of that response after
\* exactly k+1 sends, with one sleep after each of the k failures and before
\* the next send; and while fewer than max_retries attempts were made and all
\* of them failed, the call has slept and is about to send again.
C1_RetryThenSuccess ==
    /\ Alternates
    /\ \A i \in SendIndexes :
          Got200(log[i].resp) =>
             /\ i = Len(log)
             /\ pc = "done"
             /\ outcome = Returned(JsonDecode(log[i].resp.text))
             /\ Sends = Sleeps + 1
             /\ Sends <= max_retries
    /\ (KeyIsSet /\ AllSendsFailed /\ Sends < max_retries) =>
          /\ pc = "loop"
          /\ attempt = Sends
          /\ Sleeps = Sends

C1_Witness ==
    /\ pc = "done"
    /\ max_retries = 3
    /\ Sends = 3
    /\ Sleeps = 2
    /\ outcome.kind = "return"
    /\ GotNon200(log[1].resp)
    /\ GotRequestException(log[3].resp)

\* C2: when every attempt failed, the call ends after exactly max_retries
\* sends by raising an error that carries max_retries as the attempt count
\* and tells how the last attempt ended: its status code after a non-200
\* response, a network error after a requests exception.
C2_Exhaustion ==
    (pc = "done" /\ Sends >= 1 /\ AllSendsFailed) =>
        LET last == log[Len(log)].resp IN
        /\ log[Len(log)].ev = "send"
        /\ Sends = max_retries
        /\ outcome.kind = "raise"
        /\ outcome.exc = "RuntimeError"
        /\ outcome.n = max_retries
        /\ GotNon200(last) =>
              /\ outcome.text = "API request failed after {n} attempts with status code {s}"
              /\ outcome.s = last.status_code
        /\ GotRequestException(last) =>
              outcome.text = "API request failed after {n} attempts due to network errors."

C2_Witness ==
    /\ pc = "done"
    /\ outcome.kind = "raise"
    /\ Sends = 3
    /\ AllSendsFailed
    /\ GotRequestException(log[1].resp)
    /\ GotNon200(log[3].resp)
    /\ GotNon200(log[5].resp)
    /\ log[5].resp.status_code = 500

\* C3: the number of sends never exceeds max_retries, a response with status
\* 200 that decodes is the last event of the call, and once the call has
\* returned or raised nothing more is sent and nothing more is slept.
C3_SendBound ==
    /\ [](/\ Sends <= max_retries
          /\ \A i \in SendIndexes : Got200(log[i].resp) => i = Len(log))
    /\ [][pc = "done" => log' = log]_vars

C3_Witness ==
    /\ pc = "done"
    /\ max_retries = 3
    /\ Sends = 3
    /\ outcome.kind = "raise"
    /\ \A i \in SendIndexes : log[i].resp.status_code = 500

\* C4: when the variable named by api_key_env_var is unset or empty, the call
\* raises the ValueError naming the variable and has sent nothing and slept
\* not at all, whatever the method and max_retries.
C4_MissingKey ==
    (pc # "idle" /\ env[api_key_env_var] \in {PyNone, ""}) =>
        /\ pc = "done"
        /\ outcome = ConfigError(api_key_env_var)
        /\ log = <<>>

C4_Witness ==
    /\ pc = "done"
    /\ env[api_key_env_var] = ""
    /\ method = "GET"
    /\ max_retries = 2
    /\ outcome.kind = "raise"
    /\ outcome.exc = "ValueError"

\* C5 (as claimed): every response with a status from 200 through 299 ends
\* the loop at once as a success and its body is returned.
C5_Any2xxSucceeds ==
    \A i \in SendIndexes :
        LET r == log[i].resp IN
        (r.kind = "http" /\ r.status_code >= 200 /\ r.status_code <= 299
            /\ r.text \in DecodableBodies) =>
              /\ i = Len(log)
              /\ pc = "done"
              /\ outcome = Returned(JsonDecode(r.text))

\* C5 (amended): only status 200 ends the loop as a success, returning the
\* decoded body; every other status, 201..299 included, and every transport
\* exception is a failed attempt: it is followed by a sleep and another
\* attempt, or by the exhaustion error when it was the last attempt.
C5_Only200Succeeds ==
    \A i \in SendIndexes :
        LET r == log[i].resp IN
        /\ Got200(r) =>
              /\ i = Len(log)
              /\ pc = "done"
              /\ outcome = Returned(JsonDecode(r.text))
        /\ (GotNon200(r) \/ r.kind = "exception") =>
              \/ i < Len(log) /\ log[i + 1].ev = "sleep"
              \/ /\ i = Len(log)
                 /\ pc = "done"
                 /\ outcome.kind = "raise"
                 /\ outcome.exc = "RuntimeError"
                 /\ attempt = max_retries - 1

C5_Witness ==
    /\ pc = "done"
    /\ Sends = 2
    /\ log[1].resp.status_code = 201
    /\ Got200(log[3].resp)
    /\ outcome.kind = "return"

\* The field a provider expects the credential under.
CredentialField(d) == IF d \in BlsDatasets THEN "registrationkey" ELSE "api_key"

\* C6: every request a dataset function sends carries, under the provider's
\* credential field, the key resolved from the environment for that call.
C6_CredentialSent ==
    caller \in Datasets =>
        \A i \in SendIndexes :
            LET p == log[i].req.payload IN
            /\ CredentialField(caller) \in DOMAIN p
            /\ p[CredentialField(caller)] = ResolveKey(env, api_key_env_var)

\* C7: the caller's payload has the same keys and values after the call as
\* before it.
C7_PayloadUnchanged == pc = "done" => payload = payload0

\* --------------------------------------------- reading a normalizer's input
NzDone == nz_fn # "none"

\* The top-level keys the normalizer fn looks for are absent from j.
TopLevelMissing(fn, j) ==
    IF fn = "FRED"
    THEN "observations" \notin DOMAIN j
    ELSE "Results" \notin DOMAIN j \/ "series" \notin DOMAIN j.Results

\* The list the provider reports is there and empty.
EmptyList(fn, j) ==
    /\ ~TopLevelMissing(fn, j)
    /\ IF fn = "FRED" THEN j.observations = <<>> ELSE j.Results.series = <<>>

\* j has the shape of the provider's responses and carries records: a first
\* series with data (and, for CES, its seriesID), or observations; for BLS
\* and FRED every record has a value that is the text of a number.
MatchesSchema(fn, j) ==
    /\ ~TopLevelMissing(fn, j)
    /\ ~EmptyList(fn, j)
    /\ fn # "FRED" =>
          /\ "data" \in DOMAIN j.Results.series[1]
          /\ j.Results.series[1].data # <<>>
          /\ fn = "CES" => "seriesID" \in DOMAIN j.Results.series[1]
    /\ fn # "CES" =>
          LET recs == IF fn = "FRED" THEN j.observations ELSE j.Results.series[1].data IN
          \A i \in 1..Len(recs) :
              /\ HasKey(recs[i], "value")
              /\ GetItem(recs[i], "value").s \in NumericTexts

\* The records of a response that matches the schema, in the provider's order.
RecordsOf(fn, j) ==
    IF fn = "FRED" THEN j.observations ELSE j.Results.series[1].data

\* Every record carries every required field; the CES normalizer supplies
\* seriesID itself.
RecordsHaveFields(fn, recs, fields) ==
    \A i \in 1..Len(recs) :
        \A f \in SeqRange(fields) :
            HasKey(recs[i], f) \/ (fn = "CES" /\ f = "seriesID")

\* The cell the table is to hold for field f of record rec.
ExpectedCell(fn, j, rec, f) ==
    IF fn = "CES" /\ f = "seriesID" THEN Str(j.Results.series[1].seriesID)
    ELSE IF fn # "CES" /\ f = "value" THEN Num(ParseNumber(GetItem(rec, f).s))
    ELSE GetItem(rec, f)

\* C8: for each normalizer and every response that matches the provider's
\* schema and whose records carry all required fields, the result is a table
\* whose columns are required_fields in order, nothing more, with one row per
\* record in the provider's order, whatever extra fields the records carry.
C8_ColumnsAreRequiredFields ==
    (/\ NzDone
     /\ MatchesSchema(nz_fn, nz_json0)
     /\ RecordsHaveFields(nz_fn, RecordsOf(nz_fn, nz_json0), nz_fields)) =>
        LET recs == RecordsOf(nz_fn, nz_json0) IN
        /\ nz_result.kind = "table"
        /\ nz_result.df.columns = nz_fields
        /\ Len(nz_result.df.rows) = Len(recs)
        /\ \A i \in 1..Len(recs) :
              /\ DOMAIN nz_result.df.rows[i] = SeqRange(nz_fields)
              /\ \A f \in SeqRange(nz_fields) :
                    nz_result.df.rows[i][f] = ExpectedCell(nz_fn, nz_json0, recs[i], f)

C8_Witness ==
    /\ nz_fn = "CES"
    /\ nz_fields = <<"seriesID", "year", "periodName", "value">>
    /\ MatchesSchema("CES", nz_json0)
    /\ Len(RecordsOf("CES", nz_json0)) = 2
    /\ HasKey(RecordsOf("CES", nz_json0)[1], "footnotes")
    /\ RecordsOf("CES", nz_json0)[2][1][1] = "value"
    /\ nz_result.kind = "table"
    /\ Len(nz_result.df.rows) = 2

\* C9: an empty series list (BLS, CES) or an empty observations list (FRED)
\* gives a table with no rows whose columns are required_fields in order; the
\* normalizer does not raise.
C9_EmptyListGivesEmptyTable ==
    (NzDone /\ EmptyList(nz_fn, nz_json0)) =>
        /\ nz_result.kind = "table"
        /\ nz_result.df.columns = nz_fields
        /\ nz_result.df.rows = <<>>

C9_Witness ==
    /\ nz_fn = "FRED"
    /\ nz_json0 = [observations |-> <<>>]
    /\ nz_fields = <<"date", "value">>
    /\ nz_result.kind = "table"
    /\ nz_result.df.rows = <<>>

\* C10 (as claimed): every normalizer fails with the structure error when the
\* top-level keys it expects are absent, and returns no table.
C10_MissingKeysRaise ==
    (NzDone /\ TopLevelMissing(nz_fn, nz_json0)) =>
        /\ nz_result.kind = "raise"
        /\ nz_result.exc = "ValueError"

\* C10 (amended): process_ces_api_response fails with 'Unexpected CES API
\* response structure.' when Results or Results.series is absent, while
\* process_bls_api_response and process_fred_api_response return a table
\* with no rows and the columns required_fields when their keys are absent.
C10_MissingKeysByNormalizer ==
    (NzDone /\ TopLevelMissing(nz_fn, nz_json0)) =>
        IF nz_fn = "CES"
        THEN /\ nz_result.kind = "raise"
             /\ nz_result.exc = "ValueError"
             /\ nz_result.text = "Unexpected CES API response structure."
        ELSE /\ nz_result.kind = "table"
             /\ nz_result.df.columns = nz_fields
             /\ nz_result.df.rows = <<>>

C10_Witness ==
    /\ nz_fn = "CES"
    /\ nz_json0 = [Results |-> <<>>]
    /\ nz_result.kind = "raise"
    /\ nz_result.text = "Unexpected CES API response structure."

\* C11: process_bls_api_response and process_fred_api_response, given a
\* response with none of the expected keys (the empty mapping), return a
\* table with no rows whose columns are required_fields, and do not raise.
C11_EmptyMappingGivesEmptyTable ==
    (/\ nz_fn \in {"BLS", "FRED"}
     /\ "Results" \notin DOMAIN nz_json0
     /\ "observations" \notin DOMAIN nz_json0) =>
        /\ nz_result.kind = "table"
        /\ nz_result.df.columns = nz_fields
        /\ Len(nz_result.df.rows) = 0

C11_Witness ==
    /\ nz_fn = "BLS"
    /\ nz_json0 = <<>>
    /\ nz_fields = <<"year", "periodName", "value">>
    /\ nz_result.kind = "table"

\* C12: process_ces_api_response fails with 'Unexpected CES API response
\* structure.' and returns no table when the response lacks the Results key
\* or the Results.series key.
C12_CesMissingKeyRaises ==
    (/\ nz_fn = "CES"
     /\ ("Results" \notin DOMAIN nz_json0 \/ "series" \notin DOMAIN nz_json0.Results)) =>
        nz_result =
            [ kind |-> "raise", exc |-> "ValueError",
              text |-> "Unexpected CES API response structure." ]

C12_Witness ==
    /\ nz_fn = "CES"
    /\ nz_json0 = [status |-> "REQUEST_SUCCEEDED"]
    /\ nz_result.kind = "raise"
    /\ nz_result.exc = "ValueError"

\* Every record has a value, and the value of at least one is not the text
\* of a number.
SomeValueNotNumeric(recs) ==
    /\ \A i \in 1..Len(recs) : HasKey(recs[i], "value")
    /\ \E i \in 1..Len(recs) : GetItem(recs[i], "value").s \notin NumericTexts

AllValuesNumeric(recs) ==
    \A i \in 1..Len(recs) :
        HasKey(recs[i], "value") /\ GetItem(recs[i], "value").s \in NumericTexts

\* The observations of a FRED response that has some.
HasObservations(j) == "observations" \in DOMAIN j /\ j.observations # <<>>

\* C13 (as claimed): for an observations list with a non-numeric value,
\* process_fred_api_response does not raise; it returns one row per
\* observation, with a null for each non-numeric value and the parsed number
\* for each numeric one.
C13_FredToleratesNonNumeric ==
    (/\ nz_fn = "FRED"
     /\ HasObservations(nz_json0)
     /\ SomeValueNotNumeric(nz_json0.observations)
     /\ RecordsHaveFields("FRED", nz_json0.observations, nz_fields)) =>
        /\ nz_result.kind = "table"
        /\ Len(nz_result.df.rows) = Len(nz_json0.observations)
        /\ \A i \in 1..Len(nz_json0.observations) :
              nz_result.df.rows[i]["value"] =
                  ToNumeric(GetItem(nz_json0.observations[i], "value"))

\* C13 (amended): for an observations list with a non-numeric value,
\* process_fred_api_response raises ValueError 'Invalid data type in FRED API
\* response' and returns no table; it returns a table, one row per
\* observation with every value parsed as a number, when all values are
\* numeric and the records carry the required fields.
C13_FredRejectsNonNumeric ==
    /\ (/\ nz_fn = "FRED"
        /\ HasObservations(nz_json0)
        /\ SomeValueNotNumeric(nz_json0.observations)) =>
            nz_result =
                [ kind |-> "raise", exc |-> "ValueError",
                  text |-> "Invalid data type in FRED API response" ]
    /\ (/\ nz_fn = "FRED"
        /\ HasObservations(nz_json0)
        /\ AllValuesNumeric(nz_json0.observations)
        /\ RecordsHaveFields("FRED", nz_json0.observations, nz_fields)) =>
            /\ nz_result.kind = "table"
            /\ Len(nz_result.df.rows) = Len(nz_json0.observations)
            /\ \A i \in 1..Len(nz_json0.observations) :
                  nz_result.df.rows[i]["value"] =
                      Num(ParseNumber(GetItem(nz_json0.observations[i], "value").s))

C13_Witness ==
    /\ nz_fn = "FRED"
    /\ nz_fields = <<"date", "value">>
    /\ HasObservations(nz_json0)
    /\ Len(nz_json0.observations) = 2
    /\ SomeValueNotNumeric(nz_json0.observations)
    /\ GetItem(nz_json0.observations[1], "value") = Str("322600")
    /\ GetItem(nz_json0.observations[2], "value") = Str(".")
    /\ nz_result.kind = "raise"

\* The first series of a BLS response, when it carries records.
HasFirstSeriesData(j) ==
    /\ "Results" \in DOMAIN j
    /\ "series" \in DOMAIN j.Results
    /\ j.Results.series # <<>>
    /\ "data" \in DOMAIN j.Results.series[1]
    /\ j.Results.series[1].data # <<>>

\* C14: process_bls_api_response raises a ValueError and returns no table
\* when a record of the first series has a value that is not numeric; when
\* all values are numeric and the records carry the required fields it
\* returns a table in which every value is the parsed number.
C14_BlsStrictCoercion ==
    /\ (/\ nz_fn = "BLS"
        /\ HasFirstSeriesData(nz_json0)
        /\ \E i \in 1..Len(nz_json0.Results.series[1].data) :
              LET rec == nz_json0.Results.series[1].data[i] IN
              HasKey(rec, "value") /\ GetItem(rec, "value").s \notin NumericTexts) =>
            /\ nz_result.kind = "raise"
            /\ nz_result.exc = "ValueError"
    /\ (/\ nz_fn = "BLS"
        /\ HasFirstSeriesData(nz_json0)
        /\ AllValuesNumeric(nz_json0.Results.series[1].data)
        /\ RecordsHaveFields("BLS", nz_json0.Results.series[1].data, nz_fields)) =>
            /\ nz_result.kind = "table"
            /\ \A i \in 1..Len(nz_result.df.rows) :
                  /\ nz_result.df.rows[i]["value"].t = "num"
                  /\ nz_result.df.rows[i]["value"].n =
                        ParseNumber(GetItem(nz_json0.Results.series[1].data[i], "value").s)

C14_Witness ==
    /\ nz_fn = "BLS"
    /\ nz_fields = <<"year", "periodName", "value">>
    /\ HasFirstSeriesData(nz_json0)
    /\ Len(nz_json0.Results.series[1].data) = 2
    /\ nz_result.kind = "table"
    /\ nz_result.df.rows[1]["value"] = Num(3018)
    /\ nz_result.df.rows[2]["value"] = Num(3031)

\* A response with status 200 whose body response.json() cannot decode.
Undecodable200(resp) ==
    /\ resp.kind = "http"
    /\ resp.status_code = 200
    /\ resp.text \notin DecodableBodies

\* C15: a 200 response whose body cannot be decoded is fatal immediately:
\* the send that received it is the last event of the call (no sleep and no
\* send follows it) and the call ends by raising the decode error.
C15_UndecodableBodyIsFatal ==
    \A i \in SendIndexes :
        Undecodable200(log[i].resp) =>
            /\ i = Len(log)
            /\ pc = "done"
            /\ outcome = DecodeError

\* ----------------------------------------------------- reading a run's history
StartIndexes == {i \in 1..Len(history) : history[i].ev = "start"}

EndIndexes == {i \in 1..Len(history) : history[i].ev = "end"}

FailedEnds == {i \in EndIndexes : history[i].result # "saved"}

StartedInRun(d) == \E i \in StartIndexes : history[i].dataset = d

SavedInRun(d) ==
    \E i \in EndIndexes : history[i].dataset = d /\ history[i].result = "saved"

PositionOf(d) == CHOOSE k \in 1..Len(DatasetOrder) : DatasetOrder[k] = d

\* The file the run has not touched: absent, or what an earlier run left.
Untouched(f) == files[f] \in {NoFile, OldFile}

RunFailed == main_pc = "exited" /\ main_error # NoOutcome

\* C16: a malformed response delivered with status 200 is not retried: when
\* the normalizer of a dataset function rejects the body, the sends made are
\* those of fetch_data_from_api (the failed attempts and the one that got the
\* 200), nothing is sent afterwards, and the function fails with the
\* normalizer's error.
C16_RejectedBodyNotRetried ==
    \A i \in EndIndexes :
        history[i].result = "normalizer_raised" =>
            /\ history[i].sends = history[i].failed + 1
            /\ history[i].sleeps = history[i].failed
            /\ i = Len(history)
            /\ pc = "idle" /\ log = <<>>
            /\ ~SavedInRun(history[i].dataset)
            /\ RunFailed
            /\ main_error = history[i].error
            /\ main_error.exc = "ValueError"

C16_Witness ==
    /\ Len(history) = 12
    /\ history[12].ev = "end"
    /\ history[12].dataset = "ces"
    /\ history[12].result = "normalizer_raised"
    /\ history[12].sends = 1
    /\ main_error.text = "Unexpected CES API response structure."

\* C17 (as claimed): when one dataset fails, every other dataset of the run
\* has been fetched, normalized and saved by the time the failure reaches
\* the caller.
C17_SiblingsStillSaved ==
    RunFailed =>
        \A d \in Datasets \ {DatasetOrder[main_next]} : SavedInRun(d)

\* C17 (amended): when one dataset fails, the failure reaches the caller at
\* once; the datasets called before it have been saved, and the datasets
\* after it in the call order are not fetched and not saved.
C17_LaterSiblingsSkipped ==
    \A i \in FailedEnds :
        LET k == PositionOf(history[i].dataset) IN
        /\ i = Len(history)
        /\ RunFailed
        /\ main_next = k
        /\ \A j \in 1..(k - 1) : SavedInRun(DatasetOrder[j])
        /\ \A j \in k..Len(DatasetOrder) :
              /\ ~SavedInRun(DatasetOrder[j])
              /\ Untouched(DatasetPath(DatasetOrder[j]))
        /\ \A j \in (k + 1)..Len(DatasetOrder) : ~StartedInRun(DatasetOrder[j])

C17_Witness ==
    /\ RunFailed
    /\ main_next = 3
    /\ SavedInRun("cpi") /\ SavedInRun("pce")
    /\ StartedInRun("housing") /\ ~SavedInRun("housing")
    /\ ~StartedInRun("ppi")

\* C18: the entry point runs until every dataset has been saved or until the
\* first failure; after a failure the run has ended with that failure, and
\* nothing is fetched or written after it.
C18_CompletionOrFirstFailure ==
    /\ Cardinality(FailedEnds) <= 1
    /\ (main_pc # "exited") => (main_error = NoOutcome /\ FailedEnds = {})
    /\ (main_pc = "exited") =>
          /\ pc = "idle" /\ log = <<>>
          /\ \/ /\ main_error = NoOutcome
                /\ FailedEnds = {}
                /\ \A d \in Datasets : SavedInRun(d)
             \/ /\ main_error # NoOutcome
                /\ FailedEnds = {Len(history)}
                /\ main_error = history[Len(history)].error
                /\ history[Len(history)].dataset = DatasetOrder[main_next]

C18_Witness ==
    /\ main_pc = "exited"
    /\ main_error = NoOutcome
    /\ Len(history) = 2 * Len(DatasetOrder)
    /\ \A d \in Datasets : SavedInRun(d)

\* C19: the output of every dataset the run has saved stays on disk with the
\* content this run wrote, whatever happens to the datasets after it; a
\* failure deletes nothing and rolls nothing back.
C19_CompletedOutputsKept ==
    \A i \in EndIndexes :
        history[i].result = "saved" =>
            /\ RawDir \in dirs
            /\ history[i].written.kind = "file"
            /\ files[DatasetPath(history[i].dataset)] = history[i].written

C19_Witness ==
    /\ RunFailed
    /\ main_next = 2
    /\ SavedInRun("cpi")
    /\ files[DatasetPath("cpi")] = history[2].written
    /\ files[DatasetPath("cpi")] # OldFile
    /\ files[DatasetPath("pce")] = OldFile

\* C20 (as claimed): a dataset that retries delays no sibling: every dataset
\* starts at time 0 and ends after its own delays only.
C20_SiblingsNotDelayed ==
    /\ \A i \in StartIndexes : history[i].at = 0
    /\ \A i \in EndIndexes : history[i].at = DefaultRetryDelay * history[i].sleeps

\* C20 (amended): the datasets run one at a time in the call order; each
\* starts when the one before it has ended, and ends retry_delay seconds
\* later for each of its retries, so a retry delays every later dataset.
C20_RunIsSequential ==
    /\ \A i \in 1..Len(history) :
          /\ history[i].ev = IF i % 2 = 1 THEN "start" ELSE "end"
          /\ history[i].dataset = DatasetOrder[(i + 1) \div 2]
    /\ \A i \in StartIndexes :
          history[i].at = IF i = 1 THEN 0 ELSE history[i - 1].at
    /\ \A i \in EndIndexes :
          history[i].at = history[i - 1].at + DefaultRetryDelay * history[i].sleeps
    /\ (main_pc = "fetching") =>
          /\ caller = DatasetOrder[main_next]
          /\ Len(history) = 2 * main_next - 1
    /\ (main_pc # "fetching") => (pc = "idle" /\ log = <<>>)

C20_Witness ==
    /\ Len(history) >= 4
    /\ history[2].sleeps = 2
    /\ history[3].dataset = "pce"
    /\ history[3].at = 2 * DefaultRetryDelay
    /\ history[4].result = "saved"
    /\ history[4].at = 2 * DefaultRetryDelay

\* C25: on a terminated call that sent at least once, the sleeps are one
\* fewer than the sends (max_retries - 1 when the retries are exhausted), a
\* sleep stands only between two sends, so none follows the last attempt,
\* failed or successful, and every sleep lasts retry_delay.
C25_SleepsBetweenAttempts ==
    (pc = "done" /\ Sends >= 1) =>
        /\ Sleeps = Sends - 1
        /\ Alternates
        /\ log[Len(log)].ev = "send"
        /\ \A i \in SleepIndexes : log[i].secs = retry_delay
        /\ now = retry_delay * Sleeps
        /\ (outcome.kind = "raise" /\ outcome.exc = "RuntimeError") =>
              Sleeps = max_retries - 1

C25_Witness ==
    /\ pc = "done"
    /\ max_retries = 3
    /\ retry_delay = 1
    /\ Sends = 3
    /\ Sleeps = 2
    /\ now = 2
    /\ outcome.kind = "raise"

\* C26: process_ces_api_response puts the seriesID of the first series in
\* every row when seriesID is a required field, and raises the CES structure
\* error when the first series has no seriesID.
C26_SeriesIdOnEveryRow ==
    (/\ nz_fn = "CES"
     /\ ~TopLevelMissing("CES", nz_json0)
     /\ ~EmptyList("CES", nz_json0)) =>
        LET first == nz_json0.Results.series[1] IN
        /\ "seriesID" \notin DOMAIN first =>
              nz_result =
                  [ kind |-> "raise", exc |-> "ValueError",
                    text |-> "Unexpected CES API response structure." ]
        /\ (/\ MatchesSchema("CES", nz_json0)
            /\ RecordsHaveFields("CES", first.data, nz_fields)) =>
              /\ nz_result.kind = "table"
              /\ Len(nz_result.df.rows) = Len(first.data)
              /\ "seriesID" \in SeqRange(nz_fields) =>
                    \A i \in 1..Len(nz_result.df.rows) :
                        nz_result.df.rows[i]["seriesID"] = Str(first.seriesID)

C26_Witness ==
    /\ nz_fn = "CES"
    /\ nz_fields = <<"seriesID", "year", "periodName", "value">>
    /\ nz_result.kind = "table"
    /\ Len(nz_result.df.rows) = 2
    /\ nz_result.df.rows[1]["seriesID"] = Str("CES0000000001")
    /\ nz_result.df.rows[2]["seriesID"] = Str("CES0000000001")

\* The first series is there, with its seriesID and an empty data list.
FirstSeriesHasNoData(j) ==
    /\ ~TopLevelMissing("BLS", j)
    /\ j.Results.series # <<>>
    /\ "seriesID" \in DOMAIN j.Results.series[1]
    /\ "data" \in DOMAIN j.Results.series[1]
    /\ j.Results.series[1].data = <<>>

\* C27: a BLS or CES response whose first series has an empty data list
\* yields a table with no rows and the columns required_fields, and nothing
\* is raised.
C27_EmptyDataGivesEmptyTable ==
    (nz_fn \in {"BLS", "CES"} /\ FirstSeriesHasNoData(nz_json0)) =>
        /\ nz_result.kind = "table"
        /\ nz_result.df.columns = nz_fields
        /\ Len(nz_result.df.rows) = 0

\* C28: with the credential set, a terminated call has returned the decoded
\* body of a 200 response or has raised; it has not returned without a
\* payload, whatever max_retries is.
C28_ReturnsPayloadOrRaises ==
    (pc = "done" /\ KeyIsSet) =>
        \/ /\ outcome.kind = "return"
           /\ ~outcome.none
           /\ Sends >= 1
           /\ Got200(log[Len(log)].resp)
        \/ outcome.kind = "raise"

\* C29: a dataset function writes its output file only as its last step,
\* after the fetch returned and the normalizer returned a table, and writes
\* that table; when the credential is missing, the retries are exhausted or
\* the normalizer raises, the files and directories stay as they were.
C29_SaveOnlyAfterFetchAndNormalize ==
    [][ LET result == IF pc = "done" /\ outcome.kind = "return" /\ ~outcome.none
                      THEN Normalize(caller, outcome.value)
                      ELSE NoOutcome
        IN IF main_pc = "fetching" /\ pc = "done" /\ result.kind = "table"
           THEN /\ files' = [files EXCEPT ![DatasetPath(caller)] = ToCsv(result.df)]
                /\ RawDir \in dirs'
           ELSE files' = files /\ dirs' = dirs ]_vars

C29_Witness ==
    /\ RunFailed
    /\ main_next = 2
    /\ history[4].result = "normalizer_raised"
    /\ files[DatasetPath("pce")] = OldFile
    /\ files[DatasetPath("cpi")] = history[2].written

\* ------------------------------------------------- reading the saves' log
\* The last table saved to path p, when one was.
SavedTo(p) == {i \in 1..Len(io_log) : io_log[i].output_path = p}

LastSaved(p) == io_log[CHOOSE i \in SavedTo(p) : \A k \in SavedTo(p) : k <= i].df

\* What saving df alone to p leaves at p, in a directory with no files.
SavedAlone(df, p) ==
    SaveCsv([f \in AllPaths |-> NoFile], df, p)[p]

\* C21: save_data_to_csv overwrites: after any saves the file at p holds what
\* saving the last table alone produces, so saving t1 then t2 leaves t2's
\* content and saving the same table twice changes nothing; the parent
\* directory exists afterwards, whether it was there before or not.
C21_SaveOverwrites ==
    \A p \in SavePaths :
        /\ SavedTo(p) # {} =>
              /\ files[p] = SavedAlone(LastSaved(p), p)
              /\ Len(files[p].lines) = Len(LastSaved(p).rows)
              /\ DirName(p) \in dirs
        /\ SavedTo(p) = {} => Untouched(p)

C21_Witness ==
    /\ Len(io_log) = 2
    /\ io_log[1].output_path = DatasetPath("cpi")
    /\ io_log[2].output_path = DatasetPath("cpi")
    /\ Len(io_log[1].df.rows) = 2
    /\ Len(io_log[2].df.rows) = 1
    /\ files[DatasetPath("cpi")] = ToCsv(io_log[2].df)
    /\ files[DatasetPath("pce")] = NoFile
    /\ RawDir \in dirs

\* The table read back from the file of the last save.
ReadBackDone == stage = "read_csv"

\* C22 (as claimed): the table read back from the written CSV is the table
\* that was saved: the same columns in the same order and the same rows in
\* the same order.
C22_RoundTripIsIdentity ==
    ReadBackDone => stage_out.df = LastSaved(stage_in)

\* Every non-null cell of column c of df is the text of a number.
ReadsAsNumbers(df, c) ==
    /\ df.rows # <<>>
    /\ \A i \in 1..Len(df.rows) :
          \/ df.rows[i][c].t = "num"
          \/ df.rows[i][c].t = "nan"
          \/ df.rows[i][c].t = "str" /\ df.rows[i][c].s \in CsvNumericTexts

\* C22 (amended): the table read back has the saved table's columns in the
\* same order and as many rows in the same order; the zero-row table is a
\* header-only file and comes back with no rows; a number or a null comes
\* back as it was, and a string comes back as the same string unless every
\* cell of its column reads as a number, in which case it comes back as
\* that number.
C22_RoundTripUpToInference ==
    ReadBackDone =>
        LET saved == LastSaved(stage_in)
            back == stage_out.df
        IN /\ files[stage_in].header = saved.columns
           /\ Len(files[stage_in].lines) = Len(saved.rows)
           /\ back.columns = saved.columns
           /\ Len(back.rows) = Len(saved.rows)
           /\ \A i \in 1..Len(saved.rows) :
                 \A c \in SeqRange(saved.columns) :
                     LET cell == saved.rows[i][c] IN
                     back.rows[i][c] =
                         IF cell.t = "str" /\ ReadsAsNumbers(saved, c)
                         THEN Num(CsvNumber(cell.s))
                         ELSE cell

C22_Witness ==
    /\ ReadBackDone
    /\ stage_in = DatasetPath("cpi")
    /\ LastSaved(stage_in).columns = <<"year", "periodName", "value">>
    /\ Len(LastSaved(stage_in).rows) = 2
    /\ LastSaved(stage_in).rows[1]["year"] = Str("2024")
    /\ stage_out.df.rows[1]["year"] = Num(20240)
    /\ stage_out.df.rows[1]["value"] = LastSaved(stage_in).rows[1]["value"]

\* ------------------------------------------------------- reading a merge
MergeDone == stage = "merge_datasets"

BothHaveKeys ==
    /\ SeqRange(MergeKeys) \subseteq SeqRange(stage_in.sales.columns)
    /\ SeqRange(MergeKeys) \subseteq SeqRange(stage_in.cpi.columns)

\* The number of CPI rows with the keys of sales row i.
MatchCount(i) ==
    Cardinality({k \in 1..Len(stage_in.cpi.rows) :
        \A c \in SeqRange(MergeKeys) :
            stage_in.cpi.rows[k][c] = stage_in.sales.rows[i][c]})

RECURSIVE ExpectedRows(_)
ExpectedRows(i) ==
    IF i = 0 THEN 0
    ELSE ExpectedRows(i - 1) + (IF MatchCount(i) = 0 THEN 1 ELSE MatchCount(i))

\* No two rows of the CPI table have the same year and month.
CpiKeysUnique ==
    \A k1, k2 \in 1..Len(stage_in.cpi.rows) :
        (\A c \in SeqRange(MergeKeys) :
            stage_in.cpi.rows[k1][c] = stage_in.cpi.rows[k2][c]) => k1 = k2

\* A key column holds numbers in one table and strings in the other.
KeyTypesDiffer ==
    \E c \in SeqRange(MergeKeys) :
        /\ stage_in.sales.rows # <<>> /\ stage_in.cpi.rows # <<>>
        /\ \E i \in 1..Len(stage_in.sales.rows), k \in 1..Len(stage_in.cpi.rows) :
              stage_in.sales.rows[i][c].t # stage_in.cpi.rows[k][c].t

LoadCpiDone == stage = "load_cpi_data"

\* The years that appear in the CPI file, as the file spells them.
YearsInFile ==
    {files[CPI_FILE].lines[i][1] : i \in 1..Len(files[CPI_FILE].lines)}

\* The file has a row for this month of this year.
HasEntry(year, month) ==
    \E i \in 1..Len(files[CPI_FILE].lines) :
        /\ files[CPI_FILE].lines[i][1] = year
        /\ files[CPI_FILE].lines[i][2] = MonthNames[month]

YearNumber(year) == IF year = "2020" THEN 2020 ELSE 2021

\* C24: when a month 1..12 of a year of the CPI file has no row the call
\* raises KeyError naming a year of the file and a month of it that has no
\* row; when the call returns, the mapping has an entry for each of the
\* twelve months of every year of the file.
C24_EveryMonthOfEveryYear ==
    LoadCpiDone =>
        /\ (\E year \in YearsInFile, month \in 1..12 : ~HasEntry(year, month)) =>
              /\ stage_out.kind = "raise"
              /\ stage_out.exc = "KeyError"
              /\ \E year \in YearsInFile, month \in 1..12 :
                    /\ ~HasEntry(year, month)
                    /\ stage_out.year = YearNumber(year)
                    /\ stage_out.month = month
        /\ stage_out.kind = "return" =>
              \A year \in YearsInFile, month \in 1..12 :
                  <<YearNumber(year), month>> \in DOMAIN stage_out.value

\* A file whose first year is complete and whose second lacks December:
\* the call names (2020, 12).
C24_Witness ==
    /\ LoadCpiDone
    /\ \A month \in 1..12 : HasEntry("2021", month)
    /\ files[CPI_FILE].lines[1][1] = "2021"
    /\ \A month \in 1..11 : HasEntry("2020", month)
    /\ ~HasEntry("2020", 12)
    /\ stage_out.kind = "raise"
    /\ stage_out.exc = "KeyError"
    /\ stage_out.year = 2020
    /\ stage_out.month = 12

\* --------------------------------------------------- reading a merge_data run
\* The CPI file is a header line and nothing else.
HeaderOnlyCpiFile ==
    /\ files[CPI_FILE].kind = "file"
    /\ files[CPI_FILE].header = DatasetFields("cpi")
    /\ files[CPI_FILE].lines = <<>>

\* fetch_cpi_data has its response, and the response carries no data.
CpiGotNoData ==
    /\ main_pc = "fetching" /\ caller = "cpi" /\ pc = "done"
    /\ outcome.kind = "return" /\ ~outcome.none
    /\ \/ TopLevelMissing("BLS", outcome.value)
       \/ EmptyList("BLS", outcome.value)

\* C30: a response with no data makes fetch_cpi_data write a header-only
\* CPI file and return without error; a merge_data run that finds the CPI
\* file with no data rows fails in load_data with ValueError
\* ('<path> is empty.') and leaves the merged file as it was.
C30_EmptyCpiFailsDownstream ==
    [][ /\ CpiGotNoData =>
            /\ files'[CPI_FILE] = [ kind |-> "file", header |-> DatasetFields("cpi"),
                                    lines |-> <<>> ]
            /\ main_error' = NoOutcome
            /\ main_pc' = "ready"
        /\ (stage = "none" /\ stage' = "merge_data"
              /\ files[CPI_FILE].kind = "file" /\ files[CPI_FILE].header # <<>>
              /\ files[CPI_FILE].lines = <<>>) =>
            /\ stage_out'.kind = "raise"
            /\ stage_out'.exc = "ValueError"
            /\ stage_out'.where = "load_data"
            /\ stage_out'.text = "{file_path} is empty."
            /\ files' = files
            /\ files'[MERGED_FILE] = NoFile ]_vars

\* The collector wrote a header-only CPI file and the other files in full,
\* the sales file is there, and merge_data has failed.
C30_Witness ==
    /\ stage = "merge_data"
    /\ main_pc = "exited"
    /\ main_error = NoOutcome
    /\ SavedInRun("cpi")
    /\ HeaderOnlyCpiFile
    /\ files[SALES_FILE] = SalesFile
    /\ ProcessedDir \in dirs
    /\ stage_out.kind = "raise"
    /\ stage_out.exc = "ValueError"
    /\ files[MERGED_FILE] = NoFile

====
